---- MODULE Spec2Model ----
(***************************************************************************)
(* A model of doculog's changelog engine (src/doculog/changelog.py) with   *)
(* its collaborators (src/doculog/git.py, src/doculog/requests.py).        *)
(*                                                                         *)
(* Python strings are sequences of one-character strings, so that the      *)
(* string operations of the code (lower, strip, lstrip, split, replace,    *)
(* capitalize, re.match) are computed as the code computes them.           *)
(***************************************************************************)
EXTENDS Integers, Sequences, FiniteSets, TLC

VARIABLES
    scen,        \* the repository: every commit and tag it will ever hold, with its day
    now,         \* today: commits and tags dated up to now exist
    gitOK,       \* whether `git log` succeeds in the working directory
    api_key,     \* whether DOCUMATIC_API_KEY / DOCULOG_API_KEY is set
    file,        \* the changelog file: [exists, content]
    pc,          \* position of the run: idle, constructed, generating, generated, saved
    has_git,     \* ChangelogDoc.has_git
    tags,        \* ChangelogDoc._tags
    releases,    \* ChangelogDoc._releases: version -> ChangelogRelease
    cur,         \* the ChangelogRelease whose generate() is running, with its commits
    todo,        \* tag indexes ChangelogDoc.generate has still to visit
    queries,     \* get_commits calls of this run: [version, since, until]
    posts,       \* gateway calls of this run: [version, payload, outcome]
    fileReads,   \* times this run opened the changelog file for reading
    fileWrites,  \* times this run opened the changelog file for writing
    runs,        \* completed invocations
    prev,        \* _releases, _tags and the day when the previous run saved the file
    input,       \* argument of the function under test (function specifications)
    output,      \* its results so far
    calls        \* number of applications so far

vars == <<scen, now, gitOK, api_key, file, pc, has_git, tags, releases, cur, todo,
          queries, posts, fileReads, fileWrites, runs, prev, input, output, calls>>

docVars == <<scen, now, gitOK, api_key, file, pc, has_git, tags, releases, cur, todo,
             queries, posts, fileReads, fileWrites, runs, prev>>

fnVars == <<input, output, calls>>

-----------------------------------------------------------------------------
(* Python str operations                                                   *)

UpperChars == <<"A","B","C","D","E","F","G","H","I","J","K","L","M","N","O","P","Q","R","S","T","U","V","W","X","Y","Z">>

LowerChars == <<"a","b","c","d","e","f","g","h","i","j","k","l","m","n","o","p","q","r","s","t","u","v","w","x","y","z">>

\* str.lower() on one character
LowerChar(c) ==
    IF \E i \in 1..Len(UpperChars) : UpperChars[i] = c
    THEN LowerChars[CHOOSE i \in 1..Len(UpperChars) : UpperChars[i] = c]
    ELSE c

\* str.upper() on one character
UpperChar(c) ==
    IF \E i \in 1..Len(LowerChars) : LowerChars[i] = c
    THEN UpperChars[CHOOSE i \in 1..Len(LowerChars) : LowerChars[i] = c]
    ELSE c

\* str.lower()
Lower(s) == [i \in 1..Len(s) |-> LowerChar(s[i])]

\* str.capitalize(): first character upper-cased, the rest lower-cased
Capitalize(s) ==
    [i \in 1..Len(s) |-> IF i = 1 THEN UpperChar(s[i]) ELSE LowerChar(s[i])]

\* the characters str.strip() removes and \s matches
IsSpace(c) == c \in {" ", "\n", "\t"}

\* str.lstrip(chars): drop the longest prefix made of characters of cs
LStripChars(s, cs) ==
    LET keep == {i \in 1..Len(s) : s[i] \notin cs}
    IN  IF keep = {} THEN <<>>
        ELSE SubSeq(s, CHOOSE i \in keep : \A j \in keep : i <= j, Len(s))

\* str.rstrip(chars)
RStripChars(s, cs) ==
    LET keep == {i \in 1..Len(s) : s[i] \notin cs}
    IN  IF keep = {} THEN <<>>
        ELSE SubSeq(s, 1, CHOOSE i \in keep : \A j \in keep : i >= j)

Whitespace == {" ", "\n", "\t"}

LStrip(s) == LStripChars(s, Whitespace)

RStrip(s) == RStripChars(s, Whitespace)

\* str.strip()
Strip(s) == LStrip(RStrip(s))

\* str.split(sep) for a one-character separator: every piece, empty ones included
RECURSIVE Split(_, _)
Split(s, sep) ==
    LET at == {i \in 1..Len(s) : s[i] = sep}
    IN  IF at = {} THEN <<s>>
        ELSE LET i == CHOOSE k \in at : \A j \in at : k <= j
             IN  <<SubSeq(s, 1, i - 1)>> \o Split(SubSeq(s, i + 1, Len(s)), sep)

\* whether s starts with w
StartsWith(s, w) == Len(s) >= Len(w) /\ SubSeq(s, 1, Len(w)) = w

\* str.replace(w, ""): every non-overlapping occurrence of w removed, left to right
RECURSIVE RemoveAll(_, _)
RemoveAll(s, w) ==
    IF w = <<>> \/ Len(s) < Len(w) THEN s
    ELSE IF StartsWith(s, w) THEN RemoveAll(SubSeq(s, Len(w) + 1, Len(s)), w)
    ELSE <<Head(s)>> \o RemoveAll(Tail(s), w)

\* concatenation of a sequence of strings
RECURSIVE Concat(_)
Concat(ss) == IF ss = <<>> THEN <<>> ELSE Head(ss) \o Concat(Tail(ss))

\* file.readlines(): the lines of a text, each keeping its newline
RECURSIVE ReadLines(_)
ReadLines(s) ==
    LET at == {i \in 1..Len(s) : s[i] = "\n"}
    IN  IF s = <<>> THEN <<>>
        ELSE IF at = {} THEN <<s>>
        ELSE LET i == CHOOSE k \in at : \A j \in at : k <= j
             IN  <<SubSeq(s, 1, i)>> \o ReadLines(SubSeq(s, i + 1, Len(s)))

Digits == {"0", "1", "2", "3", "4", "5", "6", "7", "8", "9"}

\* re.match(r"\s*[\*-]\s", s)
MatchBullet(s) ==
    LET t == LStrip(s)
    IN  Len(t) >= 2 /\ t[1] \in {"*", "-"} /\ IsSpace(t[2])

\* re.match(r"#+\s", s)
MatchHeading(s) ==
    LET t == LStripChars(s, {"#"})
    IN  Len(t) < Len(s) /\ Len(t) >= 1 /\ IsSpace(t[1])

\* the length of the prefix of s that [0-9]{1,2}\. can match, or 0
DigitsDot(s) ==
    IF Len(s) >= 2 /\ s[1] \in Digits /\ s[2] = "." THEN 2
    ELSE IF Len(s) >= 3 /\ s[1] \in Digits /\ s[2] \in Digits /\ s[3] = "." THEN 3
    ELSE 0

\* re.match(r"[0-9]{1,2}\.[0-9]{1,2}\.[0-9]{1,2}", s)
MatchVersion(s) ==
    LET a == DigitsDot(s)
        r == SubSeq(s, a + 1, Len(s))
        b == DigitsDot(r)
        q == SubSeq(r, b + 1, Len(r))
    IN  a > 0 /\ b > 0 /\ Len(q) >= 1 /\ q[1] \in Digits

-----------------------------------------------------------------------------
(* ChangelogSection                                                        *)

Categories == {"Added", "Changed", "Fixed", "Removed", "Deprecated"}

\* the order of ChangelogRelease._sections
CategoryOrder == <<"Added", "Changed", "Fixed", "Removed", "Deprecated">>

\* ChangelogSection.title of each section
Title(cat) ==
    CASE cat = "Added" -> <<"A","d","d","e","d">>
      [] cat = "Changed" -> <<"C","h","a","n","g","e","d">>
      [] cat = "Fixed" -> <<"F","i","x","e","d">>
      [] cat = "Removed" -> <<"R","e","m","o","v","e","d">>
      [] cat = "Deprecated" -> <<"D","e","p","r","e","c","a","t","e","d">>

\* the value None
None == "None"

\* ChangelogSection.add_commit on _commits
add_commit(commits, commit_title) ==
    Append(commits, RStrip(IF MatchBullet(commit_title) THEN commit_title
                           ELSE <<"*"," ">> \o commit_title))

\* ChangelogSection.has_content
has_content(commits) == Len(commits) > 0

\* a de-duplication that drops a line only when it repeats the line before it
RECURSIVE remove_adjacent_duplicates(_)
remove_adjacent_duplicates(commits) ==
    IF Len(commits) <= 1 THEN commits
    ELSE LET front == remove_adjacent_duplicates(SubSeq(commits, 1, Len(commits) - 1))
             last == commits[Len(commits)]
         IN  IF last = commits[Len(commits) - 1] THEN front ELSE Append(front, last)

\* ChangelogSection.remove_duplicates on _commits
RECURSIVE remove_duplicates(_)
remove_duplicates(commits) ==
    IF commits = <<>> THEN <<>>
    ELSE LET unique_commits == remove_duplicates(SubSeq(commits, 1, Len(commits) - 1))
             commit == commits[Len(commits)]
         IN  IF \E i \in 1..Len(unique_commits) : unique_commits[i] = commit
             THEN unique_commits
             ELSE Append(unique_commits, commit)

\* ChangelogSection.__str__
Section_str(cat, commits) ==
    <<"#","#","#"," ">> \o Title(cat) \o <<"\n","\n">> \o Concat([i \in 1..Len(commits) |-> commits[i] \o <<"\n">>])

-----------------------------------------------------------------------------
(* ChangelogRelease                                                        *)

\* the verb table of catalog_commit
commit_types_table == {
    <<<<"f","i","x","e","d">>, "Fixed">>, <<<<"f","i","x","e","s">>, "Fixed">>, <<<<"f","i","x">>, "Fixed">>,
    <<<<"b","u","g","f","i","x">>, "Fixed">>, <<<<"s","o","l","v","e">>, "Fixed">>, <<<<"s","o","l","v","e","s">>, "Fixed">>,
    <<<<"s","o","l","v","e","d">>, "Fixed">>, <<<<"c","l","o","s","e">>, "Fixed">>, <<<<"c","l","o","s","e","s">>, "Fixed">>,
    <<<<"c","l","o","s","e","d">>, "Fixed">>, <<<<"c","o","r","r","e","c","t","s">>, "Fixed">>, <<<<"c","o","r","r","e","c","t">>, "Fixed">>,
    <<<<"c","o","r","r","e","c","t","e","d">>, "Fixed">>,
    <<<<"c","r","e","a","t","e">>, "Added">>, <<<<"c","r","e","a","t","e","s">>, "Added">>, <<<<"c","r","e","a","t","e","d">>, "Added">>,
    <<<<"m","a","k","e">>, "Added">>, <<<<"m","a","k","e","s">>, "Added">>, <<<<"m","a","d","e">>, "Added">>,
    <<<<"w","r","i","t","e">>, "Added">>, <<<<"w","r","o","t","e">>, "Added">>, <<<<"a","d","d">>, "Added">>,
    <<<<"a","d","d","s">>, "Added">>, <<<<"a","d","d","e","d">>, "Added">>,
    <<<<"l","i","s","t">>, "Changed">>, <<<<"l","i","s","t","s">>, "Changed">>, <<<<"u","s","e">>, "Changed">>,
    <<<<"u","s","e","s">>, "Changed">>, <<<<"f","e","t","c","h">>, "Changed">>, <<<<"f","e","t","c","h","e","s">>, "Changed">>,
    <<<<"f","e","t","c","h","e","d">>, "Changed">>, <<<<"l","o","g">>, "Changed">>, <<<<"l","o","g","s">>, "Changed">>,
    <<<<"l","o","g","g","e","d">>, "Changed">>, <<<<"i","m","p","r","o","v","e">>, "Changed">>, <<<<"i","m","p","r","o","v","e","s">>, "Changed">>,
    <<<<"i","m","p","r","o","v","e","d">>, "Changed">>, <<<<"p","r","i","n","t">>, "Changed">>, <<<<"p","r","i","n","t","s">>, "Changed">>,
    <<<<"p","r","i","n","t","e","d">>, "Changed">>, <<<<"r","e","w","r","i","t","e">>, "Changed">>, <<<<"r","e","w","r","o","t","e">>, "Changed">>,
    <<<<"r","e","w","r","i","t">>, "Changed">>, <<<<"r","e","f","a","c","t","o","r">>, "Changed">>, <<<<"c","h","a","n","g","e">>, "Changed">>,
    <<<<"c","h","a","n","g","e","s">>, "Changed">>, <<<<"c","h","a","n","g","e","d">>, "Changed">>, <<<<"m","o","v","e">>, "Changed">>,
    <<<<"m","o","v","e","s">>, "Changed">>, <<<<"m","o","v","e","d">>, "Changed">>, <<<<"u","p","d","a","t","e">>, "Changed">>,
    <<<<"u","p","d","a","t","e","s">>, "Changed">>, <<<<"u","p","d","a","t","e","d">>, "Changed">>, <<<<"t","w","e","a","k">>, "Changed">>,
    <<<<"t","w","e","a","k","s">>, "Changed">>, <<<<"t","w","e","a","k","e","d">>, "Changed">>,
    <<<<"r","e","m","o","v","e">>, "Removed">>, <<<<"r","e","m","o","v","e","s">>, "Removed">>, <<<<"r","e","m","o","v","e","d">>, "Removed">>,
    <<<<"d","e","l","e","t","e">>, "Removed">>, <<<<"d","e","l","e","t","e","s">>, "Removed">>, <<<<"d","e","l","e","t","e","d">>, "Removed">>,
    <<<<"d","e","p","r","e","c","a","t","e">>, "Deprecated">>, <<<<"d","e","p","r","e","c","a","t","e","s">>, "Deprecated">>,
    <<<<"d","e","p","r","e","c","a","t","e","d">>, "Deprecated">> }

\* the keys of commit_types
commit_verbs == {p[1] : p \in commit_types_table}

\* commit_types[word]
commit_types(word) == (CHOOSE p \in commit_types_table : p[1] = word)[2]

\* commit.lower().split(" ")[0] without the lower()
start_word_cased(commit) == Split(commit, " ")[1]

\* commit_lower.split(" ")[0]
start_word(commit) == Split(Lower(commit), " ")[1]

\* a catalog_commit that hands back the lowered title on a miss
catalog_commit_lowered(commit) ==
    LET commit_lower == Lower(commit)
        word == start_word(commit)
    IN  IF word \in commit_verbs
        THEN <<commit_types(word), Capitalize(Strip(RemoveAll(commit_lower, word)))>>
        ELSE <<None, commit_lower>>

\* ChangelogRelease.catalog_commit: <<commit_type, cleaned_commit>>
catalog_commit(commit) ==
    LET commit_lower == Lower(commit)
        word == start_word(commit)
    IN  IF word \in commit_verbs
        THEN <<commit_types(word), Capitalize(Strip(RemoveAll(commit_lower, word)))>>
        ELSE <<None, commit>>

\* the five empty sections ChangelogRelease.__init__ creates
NewSections == [c \in Categories |-> <<>>]

\* ChangelogRelease.__init__ (called: the read and generate calls made on the
\* instance since, in their order)
ChangelogRelease(version, date) ==
    [cls |-> "ChangelogRelease", version |-> version, date |-> date,
     sections |-> NewSections, batched |-> <<>>, called |-> <<>>]

\* ChangelogUnreleased.__init__
ChangelogUnreleased ==
    [cls |-> "ChangelogUnreleased", version |-> <<"U","n","r","e","l","e","a","s","e","d">>, date |-> <<"2","0","9","9","-","0","1","-","0","1">>,
     sections |-> NewSections, batched |-> <<>>, called |-> <<>>]

\* add_commit for each of lines, in order
RECURSIVE add_commits(_, _)
add_commits(commits, lines) ==
    IF lines = <<>> THEN commits
    ELSE add_commits(add_commit(commits, Head(lines)), Tail(lines))

\* the inner loop of ChangelogRelease.read: the bullet lines up to the next heading
RECURSIVE ScanCommits(_)
ScanCommits(lines) ==
    IF lines = <<>> THEN <<>>
    ELSE IF MatchBullet(Head(lines)) THEN <<Head(lines)>> \o ScanCommits(Tail(lines))
    ELSE IF MatchHeading(Head(lines)) THEN <<>>
    ELSE ScanCommits(Tail(lines))

\* the section a line of ChangelogRelease.read opens, or None
SectionOfLine(line) ==
    LET _line == Strip(LStripChars(line, {"#"}))
    IN  IF \E c \in Categories : Lower(Title(c)) = Lower(_line)
        THEN CHOOSE c \in Categories : Lower(Title(c)) = Lower(_line)
        ELSE None

\* ChangelogRelease.read from line i on, on _sections
RECURSIVE Release_read_from(_, _, _)
Release_read_from(sections, lines, i) ==
    IF i > Len(lines) THEN sections
    ELSE LET title == SectionOfLine(lines[i])
         IN  IF title = None THEN Release_read_from(sections, lines, i + 1)
             ELSE Release_read_from(
                      [sections EXCEPT ![title] =
                          add_commits(@, ScanCommits(SubSeq(lines, i + 1, Len(lines))))],
                      lines, i + 1)

\* ChangelogRelease.read
Release_read(rel, lines) ==
    [rel EXCEPT !.sections = Release_read_from(rel.sections, lines, 1),
                !.called = Append(@, "read")]

\* ChangelogRelease._update_log on _sections
RECURSIVE _update_log(_, _)
_update_log(sections, log_updates) ==
    IF log_updates = <<>> THEN sections
    ELSE LET commit_type == Head(log_updates)[1]
             commit_msg == Head(log_updates)[2]
         IN  _update_log(
                 IF commit_type # None
                 THEN [sections EXCEPT ![commit_type] = add_commit(@, commit_msg)]
                 ELSE sections,
                 Tail(log_updates))

\* ChangelogRelease.header and ChangelogUnreleased.header
header(rel) ==
    IF rel.cls = "ChangelogUnreleased" THEN <<"#","#"," ">> \o rel.version
    ELSE <<"#","#"," ">> \o rel.version \o <<" ","-"," ">> \o rel.date

\* ChangelogRelease.__str__
Release_str(rel) ==
    header(rel) \o <<"\n","\n">> \o
    Concat([i \in 1..Len(CategoryOrder) |->
               IF has_content(rel.sections[CategoryOrder[i]])
               THEN Strip(Section_str(CategoryOrder[i], rel.sections[CategoryOrder[i]]))
                    \o <<"\n","\n">>
               ELSE <<>>])

-----------------------------------------------------------------------------
(* The gateway: doculog.requests.post                                      *)

\* what post returns when it returns None
NoResponse == [kind |-> "None", items |-> <<>>]

\* what post returns when the server answers 200 with a list
ListResponse(items) == [kind |-> "list", items |-> items]

\* a server answer that classifies the commits the verb table could not
Classified(payload) ==
    [i \in 1..Len(payload) |->
        IF payload[i][1] = None THEN <<"Added", payload[i][2]>> ELSE payload[i]]

\* a server answer that names a category no release has
Misnamed(payload) ==
    [i \in 1..Len(payload) |-> IF i = 1 THEN <<"Security", payload[i][2]>> ELSE payload[i]]

\* the "message" of a 200 answer: a list; a string holding a JSON list; the string
\* "ok", which is no JSON; the object {"error": ...}. items is what a for loop over
\* the value yields: the pairs, the characters, the keys.
Messages(payload) ==
    {[kind |-> "list", items |-> m] : m \in {payload, Classified(payload), <<>>}}
    \cup {[kind |-> "json", items |-> Classified(payload)],
          [kind |-> "list", items |-> Misnamed(payload)],
          [kind |-> "str", items |-> <<<<"o">>, <<"k">>>>],
          [kind |-> "dict", items |-> <<<<"e","r","r","o","r">>>>]}

\* the HTTP exchanges of one request: [connected, status_code, message]
Exchanges(payload) ==
    {[connected |-> FALSE, status_code |-> 0, message |-> NoResponse],
     [connected |-> TRUE, status_code |-> 500, message |-> NoResponse]}
    \cup {[connected |-> TRUE, status_code |-> 200, message |-> m] : m \in Messages(payload)}

\* post: what is returned for the message of a 200 answer
Decode(message) ==
    IF message.kind = "json" THEN ListResponse(message.items) ELSE message

\* doculog.requests.post, given whether a key is set and how the request went
post(key, exchange) ==
    IF ~key THEN NoResponse
    ELSE IF ~exchange.connected THEN NoResponse
    ELSE IF exchange.status_code = 200 THEN Decode(exchange.message)
    ELSE NoResponse

\* Python truthiness of what post returned
Truthy(response) == response.kind # "None" /\ response.items # <<>>

\* whether _update_log raises on what post returned: an item that does not unpack
\* into commit_type, commit_msg, or a commit_type that is no key of _sections
Raises(response) ==
    /\ Truthy(response)
    /\ \E i \in 1..Len(response.items) :
           \/ Len(response.items[i]) # 2
           \/ response.items[i][1] \notin Categories \cup {None}

\* a post_classification that drops the batch when the gateway gave nothing
post_classification_no_fallback(rel, response) ==
    IF Len(rel.batched) > 0
    THEN [rel EXCEPT !.sections = IF Truthy(response) THEN _update_log(@, response.items)
                                  ELSE @,
                     !.batched = <<>>]
    ELSE rel

\* a post_classification that keeps the batch for another try when post gave None
post_classification_retrying(rel, response) ==
    IF Len(rel.batched) > 0
    THEN IF Truthy(response)
         THEN [rel EXCEPT !.sections = _update_log(@, response.items), !.batched = <<>>]
         ELSE rel
    ELSE rel

\* ChangelogRelease.post_classification, given what post returned
post_classification(rel, response) ==
    IF Len(rel.batched) > 0
    THEN [rel EXCEPT !.sections = IF Truthy(response) THEN _update_log(@, response.items)
                                  ELSE _update_log(@, rel.batched),
                     !.batched = <<>>]
    ELSE rel

\* the batch size at which track_commit flushes
BatchSize == 25

\* the for loop that closes ChangelogRelease.generate
DedupedSections(sections) == [c \in Categories |-> remove_duplicates(sections[c])]

-----------------------------------------------------------------------------
(* The history collaborator: doculog.git                                   *)

\* the date git prints for a day of the model
DateStr(day) ==
    CASE day = 1 -> <<"2","0","2","1","-","0","1","-","0","1">>
      [] day = 2 -> <<"2","0","2","1","-","0","2","-","0","1">>
      [] day = 3 -> <<"2","0","2","1","-","0","3","-","0","1">>
      [] day = 4 -> <<"2","0","2","1","-","0","4","-","0","1">>
      [] OTHER -> <<"2","0","2","1","-","0","5","-","0","1">>

\* the window start ChangelogDoc.generate uses when no older tag exists
EarlyDate == <<"1","9","9","9","-","0","1","-","0","1">>

\* the date of ChangelogUnreleased
FarDate == <<"2","0","9","9","-","0","1","-","0","1">>

\* the day git reads a --since / --until date as
DayOf(date) ==
    IF date = EarlyDate THEN 0
    ELSE IF date = FarDate THEN 99
    ELSE IF \E d \in 1..5 : DateStr(d) = date THEN CHOOSE d \in 1..5 : DateStr(d) = date
    ELSE 0

\* a get_commits that leaves --until out of the command
get_commits_no_until(commits, today, since_date, until_date) ==
    LET shown == SelectSeq(commits, LAMBDA c : c.day <= today /\ c.day > DayOf(since_date))
    IN  [i \in 1..Len(shown) |-> shown[i].title]

\* doculog.git.get_commits: the titles git log --since --until shows, earliest first
get_commits(commits, today, since_date, until_date) ==
    LET shown == SelectSeq(commits, LAMBDA c : c.day <= today
                                                /\ c.day > DayOf(since_date)
                                                /\ c.day <= DayOf(until_date))
    IN  [i \in 1..Len(shown) |-> shown[i].title]

\* doculog.git.list_tags: <<tag, date>> pairs, as git tag -n lists them, reversed
list_tags(alltags, today) ==
    LET shown == SelectSeq(alltags, LAMBDA t : t.day <= today)
    IN  [i \in 1..Len(shown) |-> <<shown[i].name, DateStr(shown[i].day)>>]

-----------------------------------------------------------------------------
(* ChangelogDoc                                                            *)

\* the empty dict
EmptyMap == [k \in {} |-> 0]

\* map[k] = v
Put(map, k, v) == [x \in DOMAIN map \cup {k} |-> IF x = k THEN v ELSE map[x]]

\* the key of the Unreleased release
Unreleased == <<"U","n","r","e","l","e","a","s","e","d">>

\* tag_name.lstrip("v")
VLess(tag_name) == LStripChars(tag_name, {"v"})

\* ChangelogDoc._get_tag_date, then str(): "None" when no tag has the name
Doc_get_tag_date(doctags, tag_name) ==
    IF \E i \in 1..Len(doctags) : doctags[i][1] = tag_name
    THEN doctags[CHOOSE i \in 1..Len(doctags) :
                    /\ doctags[i][1] = tag_name
                    /\ \A j \in 1..(i - 1) : doctags[j][1] # tag_name][2]
    ELSE <<"N","o","n","e">>

\* ChangelogDoc.read._read_release on the scan state
_read_release(st) ==
    IF st.has_version
    THEN LET new_release == IF Lower(st.curr_version) = <<"u","n","r","e","l","e","a","s","e","d">>
                            THEN ChangelogUnreleased
                            ELSE ChangelogRelease(st.curr_version, st.version_date)
         IN  [st EXCEPT !.releases =
                 Put(@, st.curr_version, Release_read(new_release, st.curr_lines))]
    ELSE st

\* one turn of the for loop of ChangelogDoc.read
ReadLine(st, doctags, line) ==
    LET _line == Strip(LStripChars(line, {"#"}))
        _line_parts == Split(_line, "-")
        _ver == LStripChars(Strip(_line_parts[1]), {"v"})
    IN  IF MatchVersion(_ver) \/ Lower(_ver) = <<"u","n","r","e","l","e","a","s","e","d">>
        THEN [_read_release(st) EXCEPT
                 !.has_version = TRUE,
                 !.curr_version = _ver,
                 !.curr_lines = <<>>,
                 !.version_date = IF Len(_line_parts) = 2 THEN Strip(_line_parts[2])
                                  ELSE Doc_get_tag_date(doctags, <<"v">> \o _ver)]
        ELSE [st EXCEPT !.curr_lines = Append(@, line)]

RECURSIVE ReadLoop(_, _, _)
ReadLoop(st, doctags, content) ==
    IF content = <<>> THEN st
    ELSE ReadLoop(ReadLine(st, doctags, Head(content)), doctags, Tail(content))

\* ChangelogDoc.read on an existing file: the new _releases
Doc_read(rels, doctags, text) ==
    _read_release(
        ReadLoop([has_version |-> FALSE, curr_version |-> <<>>, version_date |-> <<>>,
                  curr_lines |-> <<>>, releases |-> rels],
                 doctags, ReadLines(text))).releases

\* the first lines of every changelog
Preamble == <<"#"," ","C","h","a","n","g","e","l","o","g","\n","\n","B","a","s","e","d"," ","o","n"," ","K","e","e","p","A","C","h","a","n","g","e","l","o","g",".","\n","G","e","n","e","r","a","t","e","d"," ","b","y"," ","*","*","D","o","c","u","m","a","t","i","c",".","*","*","\n","\n">>

\* ChangelogDoc.__str__
Doc_str(rels, doctags) ==
    Preamble
    \o (IF Unreleased \in DOMAIN rels THEN Strip(Release_str(rels[Unreleased])) ELSE <<>>)
    \o Concat([i \in 1..Len(doctags) |->
                  LET vless_tag_name == Strip(VLess(doctags[i][1]))
                  IN  IF vless_tag_name \in DOMAIN rels
                      THEN <<"\n","\n">> \o Strip(Release_str(rels[vless_tag_name]))
                      ELSE <<>>])
    \o <<"\n">>

\* a save that writes the file whether or not a repository was found
save_without_git_check(doc_has_git, f, rels, doctags) ==
    [exists |-> TRUE, content |-> Doc_str(rels, doctags)]

\* ChangelogDoc.save: the file afterwards
save(doc_has_git, f, rels, doctags) ==
    IF doc_has_git THEN [exists |-> TRUE, content |-> Doc_str(rels, doctags)] ELSE f

\* ChangelogDoc.generate, self.read(): the file is opened only if it exists
ReadExisting(rels, doctags, f) ==
    IF f.exists THEN Doc_read(rels, doctags, f.content) ELSE rels

\* a test that asks for every tag, not the newest only, to be among the releases
NeedsFreshUnreleasedAnyTag(rels, doctags) ==
    \/ Unreleased \notin DOMAIN rels
    \/ \E i \in 1..Len(doctags) : VLess(doctags[i][1]) \notin DOMAIN rels

\* ChangelogDoc.generate: whether Unreleased is replaced by a fresh release
NeedsFreshUnreleased(rels, doctags) ==
    \/ Unreleased \notin DOMAIN rels
    \/ (Len(doctags) > 0 /\ VLess(doctags[1][1]) \notin DOMAIN rels)

\* an Unreleased that is made anew only when the file had none
EnsureUnreleasedIfMissing(rels, doctags) ==
    IF Unreleased \notin DOMAIN rels THEN Put(rels, Unreleased, ChangelogUnreleased)
    ELSE rels

\* ChangelogDoc.generate: _releases once Unreleased is ensured
EnsureUnreleased(rels, doctags) ==
    IF NeedsFreshUnreleased(rels, doctags) THEN Put(rels, Unreleased, ChangelogUnreleased)
    ELSE rels

\* ChangelogDoc.generate: unreleased_start_date
unreleased_start_date(doctags) ==
    IF Len(doctags) > 0 THEN doctags[1][2] ELSE EarlyDate

\* ChangelogDoc.generate: section_start of the tag at index i
section_start(doctags, i) ==
    IF i = Len(doctags) THEN EarlyDate ELSE doctags[i + 1][2]

\* tag_name.lstrip("v").strip()
vless_tag(tag_name) == Strip(VLess(tag_name))

\* ChangelogDoc.generate: the next tag at or after j that is not yet a release, or 0
NextTag(rels, doctags, j) ==
    LET open == {k \in j..Len(doctags) : vless_tag(doctags[k][1]) \notin DOMAIN rels}
    IN  IF open = {} THEN 0 ELSE CHOOSE k \in open : \A m \in open : k <= m

\* a track_commit that flushes once the batch holds more than the batch size
track_commit_when_over(rel, commit_type, commit_update, response) ==
    LET tracked == [rel EXCEPT !.batched = Append(@, <<commit_type, commit_update>>)]
    IN  IF Len(tracked.batched) > BatchSize THEN post_classification(tracked, response)
        ELSE tracked

\* ChangelogRelease.track_commit, given what post would return for the batch
track_commit(rel, commit_type, commit_update, response) ==
    LET tracked == [rel EXCEPT !.batched = Append(@, <<commit_type, commit_update>>)]
    IN  IF Len(tracked.batched) >= BatchSize THEN post_classification(tracked, response)
        ELSE tracked

\* the request a post of payload makes: none without a key
NotSent == [connected |-> FALSE, status_code |-> 0, message |-> NoResponse]

Requests(key, payload) == IF key THEN Exchanges(payload) ELSE {NotSent}

-----------------------------------------------------------------------------
(* Repositories                                                            *)

Commit(title, day) == [title |-> title, day |-> day]

Tag(name, day) == [name |-> name, day |-> day]

\* one tag, v1.0.0, with commits before, on and after its day
RepoSingle ==
    [name |-> "single", lastDay |-> 3,
     commits |-> <<Commit(<<"A","d","d"," ","a","p","i">>, 1), Commit(<<"G","o","o","g","l","e"," ","i","t">>, 2), Commit(<<"F","i","x"," ","b","u","g">>, 3)>>,
     tags |-> <<Tag(<<"v","1",".","0",".","0">>, 2)>>]

\* two tags, newest first; a repeated title and a title that is only a verb
RepoTwo ==
    [name |-> "two", lastDay |-> 3,
     commits |-> <<Commit(<<"A","d","d"," ","a","p","i">>, 1), Commit(<<"F","i","x"," ","b","u","g">>, 2), Commit(<<"f","i","x"," ","b","u","g">>, 2),
                   Commit(<<"F","i","x">>, 3)>>,
     tags |-> <<Tag(<<"v","1",".","1",".","0">>, 3), Tag(<<"v","1",".","0",".","0">>, 1)>>]

\* a two-level tag under a three-level one
RepoTwoLevel ==
    [name |-> "twolevel", lastDay |-> 3,
     commits |-> <<Commit(<<"A","d","d"," ","a","p","i">>, 1), Commit(<<"F","i","x"," ","b","u","g">>, 2), Commit(<<"G","o","o","g","l","e"," ","i","t">>, 3)>>,
     tags |-> <<Tag(<<"v","2",".","0",".","0">>, 2), Tag(<<"v","1",".","0">>, 1)>>]

\* a tag without the v prefix
RepoNoV ==
    [name |-> "nov", lastDay |-> 2,
     commits |-> <<Commit(<<"A","d","d"," ","a","p","i">>, 1), Commit(<<"R","e","m","o","v","e"," ","i","t">>, 2)>>,
     tags |-> <<Tag(<<"1",".","0",".","0">>, 1)>>]

\* the same release tagged under two names, with and without the v
RepoBothNames ==
    [name |-> "bothnames", lastDay |-> 2,
     commits |-> <<Commit(<<"A","d","d"," ","a","p","i">>, 1), Commit(<<"F","i","x"," ","b","u","g">>, 2)>>,
     tags |-> <<Tag(<<"v","1",".","0",".","0">>, 2), Tag(<<"1",".","0",".","0">>, 1)>>]

Scenarios == {RepoSingle, RepoTwo, RepoTwoLevel, RepoNoV, RepoBothNames}

NoFile == [exists |-> FALSE, content |-> <<>>]

\* a changelog somebody wrote by hand
HandFile ==
    [exists |-> TRUE,
     content |-> <<"#"," ","C","h","a","n","g","e","l","o","g","\n","\n","#","#"," ","u","n","r","e","l","e","a","s","e","d","\n","\n","#","#","#"," ","A","d","d","e","d","\n","\n","-"," ","a"," ","n","o","t","e","\n","\n","F","i","x","e","d","\n","*"," ","s","t","r","a","y","\n","\n","#","#"," ","0",".","9",".","0"," ","-"," ","2","0","2","0","-","1","2","-","0","1","\n","\n","#","#","#"," ","F","i","x","e","d","\n","\n","*"," ","o","l","d"," ","f","i","x","\n">>]

\* a changelog in which somebody wrote a line of the 1.0.0 release a second time
EditedFile ==
    [exists |-> TRUE,
     content |-> <<"#"," ","C","h","a","n","g","e","l","o","g","\n","\n","#","#"," ","U","n","r","e","l","e","a","s","e","d","\n","\n","#","#"," ","1",".","0",".","0"," ","-"," ","2","0","2","1","-","0","2","-","0","1","\n","\n","#","#","#"," ","A","d","d","e","d","\n","\n","*"," ","A","p","i","\n","*"," ","D","o","c","s","\n","*"," ","A","p","i","\n">>]

\* a changelog whose Unreleased section holds a line somebody wrote twice
DoubledFile ==
    [exists |-> TRUE,
     content |-> <<"#"," ","C","h","a","n","g","e","l","o","g","\n","\n","#","#"," ","U","n","r","e","l","e","a","s","e","d","\n","\n","#","#","#"," ","F","i","x","e","d","\n","\n","*"," ","T","y","p","o","\n","*"," ","C","r","a","s","h","\n","*"," ","T","y","p","o","\n","\n","#","#"," ","1",".","0",".","0"," ","-"," ","2","0","2","1","-","0","1","-","0","1","\n","\n","#","#","#"," ","A","d","d","e","d","\n","\n","*"," ","A","p","i","\n">>]

NoCur == [active |-> FALSE]

NoPrev == [saved |-> FALSE, releases |-> EmptyMap, tags |-> <<>>, now |-> 0]

\* invocations of the program a behaviour holds
MaxRuns == 2

-----------------------------------------------------------------------------
(* The run of the program: ChangelogDoc(path); doc.generate(); doc.save()  *)

Init ==
    /\ scen \in Scenarios
    /\ now \in 0..scen.lastDay
    /\ gitOK \in BOOLEAN
    /\ api_key \in BOOLEAN
    /\ file \in {NoFile, HandFile, EditedFile, DoubledFile}
    /\ pc = "idle"
    /\ has_git = FALSE
    /\ tags = <<>>
    /\ releases = EmptyMap
    /\ cur = NoCur
    /\ todo = 0
    /\ queries = <<>>
    /\ posts = <<>>
    /\ fileReads = 0
    /\ fileWrites = 0
    /\ runs = 0
    /\ prev = NoPrev
    /\ input = <<>>
    /\ output = <<>>
    /\ calls = 0

\* ChangelogDoc.__init__
NewDoc ==
    /\ pc = "idle"
    /\ runs < MaxRuns
    /\ pc' = "constructed"
    /\ releases' = EmptyMap
    /\ tags' = list_tags(scen.tags, now)
    /\ has_git' = gitOK
    /\ cur' = NoCur
    /\ todo' = 0
    /\ queries' = <<>>
    /\ posts' = <<>>
    /\ fileReads' = 0
    /\ fileWrites' = 0
    /\ UNCHANGED <<scen, now, gitOK, api_key, file, runs, prev, fnVars>>

\* a query that asks for everything up to the far date, whatever the release
QueryToFarDate(rel, start_date) ==
    [version |-> rel.version, since |-> start_date, until |-> FarDate]

\* ChangelogRelease.generate: the call get_commits(since_date=..., until_date=...)
Query(rel, start_date) ==
    [version |-> rel.version, since |-> start_date, until |-> rel.date]

\* the first lines of ChangelogRelease.generate: the release with the commits to visit
\* (in_place: the release is the object _releases already holds, as Unreleased is)
BeginRelease(rel, in_place, start_date) ==
    [active |-> TRUE, rel |-> [rel EXCEPT !.called = Append(@, "generate")],
     in_place |-> in_place, i |-> 1,
     commits |-> get_commits(scen.commits, now, Query(rel, start_date).since,
                             Query(rel, start_date).until)]

\* ChangelogDoc.generate without a repository: nothing happens
GenerateNoGit ==
    /\ pc = "constructed"
    /\ ~has_git
    /\ pc' = "generated"
    /\ UNCHANGED <<scen, now, gitOK, api_key, file, has_git, tags, releases, cur, todo,
                   queries, posts, fileReads, fileWrites, runs, prev, fnVars>>

\* ChangelogDoc.generate up to the call of generate on Unreleased
GenerateBegin ==
    /\ pc = "constructed"
    /\ has_git
    /\ LET rels == EnsureUnreleased(ReadExisting(releases, tags, file), tags)
           start_date == unreleased_start_date(tags)
           begun == BeginRelease(rels[Unreleased], TRUE, start_date)
       IN  /\ releases' = Put(rels, Unreleased, begun.rel)
           /\ cur' = begun
           /\ queries' = Append(queries, Query(rels[Unreleased], start_date))
    /\ fileReads' = IF file.exists THEN fileReads + 1 ELSE fileReads
    /\ todo' = 1
    /\ pc' = "generating"
    /\ UNCHANGED <<scen, now, gitOK, api_key, file, has_git, tags, posts, fileWrites,
                   runs, prev, fnVars>>

\* _releases as a change to the release being generated shows in it
Mutated(rels, in_place, rel) == IF in_place THEN Put(rels, Unreleased, rel) ELSE rels

\* an assignment that rebinds _releases to hold the generated release alone
StoreGeneratedAlone(rels, key, release) == Put(EmptyMap, key, release)

\* ChangelogDoc.generate: self._releases[vless_tag] = release
StoreGenerated(rels, key, release) == Put(rels, key, release)

\* the record of one call of post
Posted(rel, payload, response) ==
    [version |-> rel.version, payload |-> payload, sent |-> api_key, response |-> response]

\* one turn of the for loop of ChangelogRelease.generate; an exception of _update_log
\* goes up through generate and ends the run
TrackCommit ==
    /\ pc = "generating"
    /\ cur.i <= Len(cur.commits)
    /\ LET title == cur.commits[cur.i]
           typed == catalog_commit(title)
           full == Len(cur.rel.batched) + 1 >= BatchSize
           payload == Append(cur.rel.batched, typed)
       IN  IF title = <<>>
           THEN /\ cur' = [cur EXCEPT !.i = @ + 1]
                /\ UNCHANGED <<releases, posts, pc>>
           ELSE \E exchange \in (IF full THEN Requests(api_key, payload) ELSE {NotSent}) :
                    LET response == post(api_key, exchange)
                        rel == track_commit(cur.rel, typed[1], typed[2], response)
                    IN  /\ posts' = IF full THEN Append(posts, Posted(cur.rel, payload, response))
                                    ELSE posts
                        /\ IF full /\ Raises(response)
                           THEN /\ pc' = "raised"
                                /\ UNCHANGED <<cur, releases>>
                           ELSE /\ cur' = [cur EXCEPT !.i = @ + 1, !.rel = rel]
                                /\ releases' = Mutated(releases, cur.in_place, rel)
                                /\ UNCHANGED pc
    /\ UNCHANGED <<scen, now, gitOK, api_key, file, has_git, tags, todo, queries,
                   fileReads, fileWrites, runs, prev, fnVars>>

\* the end of ChangelogRelease.generate, and ChangelogDoc.generate up to the next
\* release it generates or to its end; an exception of _update_log ends the run
FinishRelease ==
    /\ pc = "generating"
    /\ cur.i > Len(cur.commits)
    /\ LET pending == Len(cur.rel.batched) > 0
       IN  \E exchange \in (IF pending THEN Requests(api_key, cur.rel.batched)
                            ELSE {NotSent}) :
               LET response == post(api_key, exchange)
                   flushed == post_classification(cur.rel, response)
                   rel == [flushed EXCEPT !.sections = DedupedSections(@)]
                   rels == IF cur.in_place THEN Mutated(releases, TRUE, rel)
                           ELSE StoreGenerated(releases, rel.version, rel)
                   k == NextTag(rels, tags, todo)
               IN  /\ posts' = IF pending
                               THEN Append(posts, Posted(cur.rel, cur.rel.batched, response))
                               ELSE posts
                   /\ IF pending /\ Raises(response)
                      THEN /\ pc' = "raised"
                           /\ UNCHANGED <<releases, cur, todo, queries>>
                      ELSE /\ releases' = rels
                           /\ IF k = 0
                              THEN /\ pc' = "generated"
                                   /\ cur' = NoCur
                                   /\ todo' = Len(tags) + 1
                                   /\ UNCHANGED queries
                              ELSE LET release == ChangelogRelease(vless_tag(tags[k][1]),
                                                                  tags[k][2])
                                       start_date == section_start(tags, k)
                                   IN  /\ pc' = "generating"
                                       /\ cur' = BeginRelease(release, FALSE, start_date)
                                       /\ todo' = k + 1
                                       /\ queries' = Append(queries,
                                                            Query(release, start_date))
    /\ UNCHANGED <<scen, now, gitOK, api_key, file, has_git, tags, fileReads, fileWrites,
                   runs, prev, fnVars>>

\* ChangelogDoc.save
Save ==
    /\ pc \in {"constructed", "generated"}
    /\ file' = save(has_git, file, releases, tags)
    /\ fileWrites' = IF has_git THEN fileWrites + 1 ELSE fileWrites
    /\ pc' = "saved"
    /\ UNCHANGED <<scen, now, gitOK, api_key, has_git, tags, releases, cur, todo, queries,
                   posts, fileReads, runs, prev, fnVars>>

\* the process ends, after save or with the exception; commits and tags may arrive
\* before the next invocation
Exit ==
    /\ pc \in {"saved", "raised"}
    /\ pc' = "idle"
    /\ runs' = runs + 1
    /\ prev' = IF pc = "saved"
               THEN [saved |-> has_git, releases |-> releases, tags |-> tags, now |-> now]
               ELSE prev
    /\ \E day \in now..scen.lastDay : now' = day
    /\ UNCHANGED <<scen, gitOK, api_key, file, has_git, tags, releases, cur, todo, queries,
                   posts, fileReads, fileWrites, fnVars>>

Next ==
    \/ NewDoc
    \/ GenerateNoGit
    \/ GenerateBegin
    \/ TrackCommit
    \/ FinishRelease
    \/ Save
    \/ Exit

Spec == Init /\ [][Next]_vars

-----------------------------------------------------------------------------
(* The functions on their own                                              *)

\* the document variables, at rest
DocIdle ==
    /\ scen = RepoSingle
    /\ now = 0
    /\ gitOK = TRUE
    /\ api_key = FALSE
    /\ file = NoFile
    /\ pc = "function"
    /\ has_git = FALSE
    /\ tags = <<>>
    /\ releases = EmptyMap
    /\ cur = NoCur
    /\ todo = 0
    /\ queries = <<>>
    /\ posts = <<>>
    /\ fileReads = 0
    /\ fileWrites = 0
    /\ runs = 0
    /\ prev = NoPrev

\* the longest title drawn from TitleChars
MaxTitleLen == 5

TitleChars == {"f", "i", "x", "F", " "}

\* titles the tests and the documentation use, and titles that repeat their verb
ExampleTitles ==
    {<<"F","i","x"," ","t","h","e"," ","l","o","g","i","n"," ","b","u","g">>, <<"F","i","x"," ","t","h","e"," ","p","r","e","f","i","x"," ","b","u","g">>, <<"M","a","k","e"," ","a"," ","t","e","s","t"," ","c","o","m","m","i","t">>,
     <<"T","w","e","a","k","e","d"," ","a"," ","t","e","s","t"," ","c","o","m","m","i","t">>, <<"D","E","P","R","E","C","A","T","E"," ","a"," ","t","h","i","n","g">>, <<"G","o","o","g","l","e"," ","a"," ","t","e","s","t"," ","c","o","m","m","i","t">>,
     <<"f","i","n","a","l","l","y"," ","a"," ","t","e","s","t"," ","c","o","m","m","i","t">>, <<"A","d","d"," "," ","p","a","d","d","i","n","g"," ">>, <<"R","e","m","o","v","e">>, <<"a","d","d"," ","a","d","d","i","t","i","o","n","s">>,
     <<"F","i","x","i","n","g"," ","a"," ","b","u","g">>, <<" ","f","i","x"," ","i","t">>}

Titles ==
    ExampleTitles \cup UNION {[1..n -> TitleChars] : n \in 0..MaxTitleLen}

InitCatalog ==
    /\ DocIdle
    /\ input \in Titles
    /\ output = <<>>
    /\ calls = 0

\* ChangelogRelease.catalog_commit(input)
CatalogCommit ==
    /\ calls = 0
    /\ output' = catalog_commit(input)
    /\ calls' = 1
    /\ UNCHANGED <<docVars, input>>

SpecCatalog == InitCatalog /\ [][CatalogCommit]_vars

\* the longest _commits drawn from SampleLines
MaxLines == 4

SampleLines == {<<"*"," ","A","p","i">>, <<"*"," ","B","u","g">>, <<"-"," ","n","o","t","e">>}

InitSection ==
    /\ DocIdle
    /\ input \in UNION {[1..n -> SampleLines] : n \in 0..MaxLines}
    /\ output = <<>>
    /\ calls = 0

\* section.remove_duplicates(), called on the same section a second time
RemoveDuplicates ==
    /\ calls < 2
    /\ output' = Append(output, remove_duplicates(IF calls = 0 THEN input
                                                  ELSE output[calls]))
    /\ calls' = calls + 1
    /\ UNCHANGED <<docVars, input>>

SpecSection == InitSection /\ [][RemoveDuplicates]_vars

\* the most add_commit calls that build a release
MaxAdds == 3

\* texts add_commit is given: a cleaned title, an empty one, an indented bullet
SampleTexts == {<<"A","p","i">>, <<>>, <<" "," ","-"," ","n","o","t","e","\n">>}

InitRelease ==
    /\ DocIdle
    /\ input \in {ChangelogRelease(<<"1",".","0",".","0">>, <<"2","0","2","1","-","0","1","-","0","1">>), ChangelogUnreleased}
    /\ output = <<>>
    /\ calls = 0

\* release._sections[cat].add_commit(text)
AddCommit ==
    /\ output = <<>>
    /\ calls < MaxAdds
    /\ \E cat \in Categories, text \in SampleTexts :
           input' = [input EXCEPT !.sections[cat] = add_commit(@, text)]
    /\ calls' = calls + 1
    /\ UNCHANGED <<docVars, output>>

\* the lines of a rendered release as read is handed them: with their line ends
\* kept, as readlines gives them to ChangelogDoc.read, or without, as a list of
\* lines written out
RenderedLines(text) == {ReadLines(text), Split(text, "\n")}

\* str(release) read back as lines by a new release
RenderAndRead ==
    /\ output = <<>>
    /\ \E lines \in RenderedLines(Release_str(input)) :
           output' = <<Release_read(ChangelogRelease(input.version, input.date), lines)>>
    /\ UNCHANGED <<docVars, input, calls>>

NextRelease == AddCommit \/ RenderAndRead

SpecRelease == InitRelease /\ [][NextRelease]_vars


-----------------------------------------------------------------------------
(* doculog.requests.post and its environment                               *)

\* os.getenv(name): None when the variable is not set
Unset == [set |-> FALSE, value |-> <<>>]

SetTo(value) == [set |-> TRUE, value |-> value]

\* Python truthiness of what os.getenv returned
NonEmpty(v) == v.set /\ v.value # <<>>

\* a or b
Or(a, b) == IF NonEmpty(a) THEN a ELSE b

\* the environments post is called in
Environments ==
    [DOCUMATIC_API_KEY : {Unset, SetTo(<<>>), SetTo(<<"1","2","3","4","5">>)},
     DOCULOG_API_KEY : {Unset, SetTo(<<>>), SetTo(<<"6","7","8","9","0">>)},
     DOCULOG_RUN_LOCALLY : {Unset, SetTo(<<>>), SetTo(<<"T","r","u","e">>), SetTo(<<"F","a","l","s","e">>),
                            SetTo(<<"t","r","u","e">>)}]

SERVER_DOMAIN == <<"h","t","t","p","s",":","/","/","a","v","9","k","m","k","r","q","4","f",".","e","x","e","c","u","t","e","-","a","p","i",".","e","u","-","w","e","s","t","-","2",".","a","m","a","z","o","n","a","w","s",".","c","o","m","/","P","r","o","d","/">>

LocalDomain == <<"h","t","t","p",":","/","/","1","2","7",".","0",".","0",".","1",":","3","0","0","0","/">>

\* post: api_key
api_key_of(env) == Or(env.DOCUMATIC_API_KEY, env.DOCULOG_API_KEY)

\* a server choice that is local unless the variable says "False"
server_domain_unless_false(env) ==
    IF env.DOCULOG_RUN_LOCALLY # SetTo(<<"F","a","l","s","e">>) THEN LocalDomain ELSE SERVER_DOMAIN

\* post: _server_domain
server_domain(env) ==
    IF env.DOCULOG_RUN_LOCALLY = SetTo(<<"T","r","u","e">>) THEN LocalDomain ELSE SERVER_DOMAIN

NoRequest == [sent |-> FALSE, url |-> <<>>, x_api_key |-> <<>>]

\* post: the request requests.post is called with, if it is called
request_of(env, endpoint) ==
    IF ~NonEmpty(api_key_of(env)) THEN NoRequest
    ELSE [sent |-> TRUE, url |-> server_domain(env) \o endpoint,
          x_api_key |-> api_key_of(env).value]

\* the batch of the call
SamplePayload == <<<<None, <<"G","o","o","g","l","e"," ","i","t">>>>, <<"Added", <<"A","p","i">>>>>>

InitPost ==
    /\ DocIdle
    /\ input \in Environments
    /\ output = <<>>
    /\ calls = 0

\* post("classify", payload) in the environment input: the request and the result
PostCall ==
    /\ calls = 0
    /\ LET request == request_of(input, <<"c","l","a","s","s","i","f","y">>)
       IN  \E exchange \in Requests(request.sent, SamplePayload) :
               output' = <<request, post(request.sent, exchange)>>
    /\ calls' = 1
    /\ UNCHANGED <<docVars, input>>

SpecPost == InitPost /\ [][PostCall]_vars

-----------------------------------------------------------------------------
(* ChangelogRelease.read on lines of any kind                              *)

\* the most lines read is given
MaxReadLines == 4

\* lines of a changelog: category headings, another heading, bullets, a line of
\* prose that is a category's name, an empty line
SampleReadLines ==
    {<<"#","#","#"," ","A","d","d","e","d","\n">>, <<"#","#"," ","r","e","m","o","v","e","d">>, <<"#","#","#"," ","S","o","m","e"," ","o","t","h","e","r"," ","s","e","c","t","i","o","n","\n">>, <<"*"," ","a","n"," ","u","p","d","a","t","e","\n">>,
     <<" "," ","-"," ","a"," ","s","u","b"," ","u","p","d","a","t","e">>, <<"F","i","x","e","d","\n">>, <<"\n">>}

InitRead ==
    /\ DocIdle
    /\ input \in UNION {[1..n -> SampleReadLines] : n \in 0..MaxReadLines}
    /\ output = <<>>
    /\ calls = 0

\* ChangelogRelease("test", "2021-12-25").read(input)
ReadCall ==
    /\ calls = 0
    /\ output' = <<Release_read(ChangelogRelease(<<"t","e","s","t">>, <<"2","0","2","1","-","1","2","-","2","5">>), input)>>
    /\ calls' = 1
    /\ UNCHANGED <<docVars, input>>

SpecRead == InitRead /\ [][ReadCall]_vars

-----------------------------------------------------------------------------
(* ChangelogSection.add_commit on texts of any kind                        *)

\* the longest text drawn from TextChars
MaxTextLen == 4

TextChars == {"*", "-", " ", "a", "\n"}

\* the texts the tests give add_commit
ExampleTexts ==
    {<<"-"," ","s","o","m","e"," ","n","e","w"," ","u","p","d","a","t","e">>, <<"*"," ","s","o","m","e"," ","n","e","w"," ","u","p","d","a","t","e">>, <<" "," ","-"," ","s","o","m","e"," ","n","e","w"," ","u","p","d","a","t","e">>,
     <<" "," ","*"," ","s","o","m","e"," ","n","e","w"," ","u","p","d","a","t","e">>, <<"A","p","i">>}

InitAdd ==
    /\ DocIdle
    /\ input \in [commits : {<<>>, <<<<"*"," ","A","p","i">>>>},
                  text : ExampleTexts \cup UNION {[1..n -> TextChars] : n \in 0..MaxTextLen}]
    /\ output = <<>>
    /\ calls = 0

\* section.add_commit(text) on a section holding commits
AddCall ==
    /\ calls = 0
    /\ output' = <<add_commit(input.commits, input.text)>>
    /\ calls' = 1
    /\ UNCHANGED <<docVars, input>>

SpecAdd == InitAdd /\ [][AddCall]_vars

-----------------------------------------------------------------------------
(* header on releases of any version                                      *)

\* versions a release is constructed with
SampleVersions ==
    {<<"U","n","r","e","l","e","a","s","e","d">>, <<"u","n","r","e","l","e","a","s","e","d">>, <<"U","N","R","E","L","E","A","S","E","D">>, <<"U","n","r","e","l","e","a","s","e","d"," ">>, <<"1",".","0",".","0">>, <<"v","1",".","0",".","0">>,
     <<"1",".","0">>, <<"0",".","9",".","0">>, <<"2",".","0",".","0">>, <<>>}

\* dates a release is constructed with
SampleDates ==
    {<<"2","0","2","1","-","0","1","-","0","1">>, <<"2","0","2","1","-","0","2","-","0","1">>, <<"2","0","2","1","-","0","3","-","0","1">>, <<"2","0","2","0","-","1","2","-","0","1">>, <<"1","9","9","9","-","0","1","-","0","1">>,
     <<"2","0","9","9","-","0","1","-","0","1">>, <<"N","o","n","e">>, <<>>}

InitHeader ==
    /\ DocIdle
    /\ input \in {ChangelogRelease(v, d) : v \in SampleVersions, d \in SampleDates}
                 \cup {ChangelogUnreleased}
    /\ output = <<>>
    /\ calls = 0

\* release.header()
HeaderCall ==
    /\ calls = 0
    /\ output' = <<header(input)>>
    /\ calls' = 1
    /\ UNCHANGED <<docVars, input>>

SpecHeader == InitHeader /\ [][HeaderCall]_vars

-----------------------------------------------------------------------------
(* doculog.git when the git invocation fails                               *)

\* how subprocess.check_output ends: with output, with git exiting non-zero, with
\* no git executable found
Outcomes == {"ok", "CalledProcessError", "FileNotFoundError"}

\* what a function hands back: a value, or the exception that leaves it
Returns(value) == [raised |-> FALSE, exception |-> "", value |-> value]

Raised(exception) == [raised |-> TRUE, exception |-> exception, value |-> <<>>]

\* doculog.git.get_commits with its try/except; the dates are used only when both
\* are given, the whole history is listed otherwise
git_get_commits(commits, today, since_date, until_date, run) ==
    IF run = "CalledProcessError" THEN Returns(<<>>)
    ELSE IF run = "FileNotFoundError" THEN Raised(run)
    ELSE IF since_date # <<>> /\ until_date # <<>>
         THEN Returns(get_commits(commits, today, since_date, until_date))
    ELSE Returns(get_commits(commits, today, EarlyDate, FarDate))

\* doculog.git.list_tags with its try/except around git tag -n; _get_tag_date is
\* called for each tag listed, after the try
git_list_tags(alltags, today, run, date_run) ==
    IF run # "ok" THEN Returns(<<>>)
    ELSE IF list_tags(alltags, today) # <<>> /\ date_run # "ok" THEN Raised(date_run)
    ELSE Returns(list_tags(alltags, today))

\* the calls made: get_commits with dates given or not, list_tags
GitCalls ==
    [fn : {"get_commits"}, since_date : {<<>>, EarlyDate, DateStr(1)},
     until_date : {<<>>, FarDate, DateStr(2)}, run : Outcomes, date_run : {"ok"}]
    \cup [fn : {"list_tags"}, since_date : {<<>>}, until_date : {<<>>}, run : Outcomes,
          date_run : Outcomes]

InitGit ==
    /\ scen \in Scenarios
    /\ now \in 0..scen.lastDay
    /\ gitOK = TRUE
    /\ api_key = FALSE
    /\ file = NoFile
    /\ pc = "function"
    /\ has_git = FALSE
    /\ tags = <<>>
    /\ releases = EmptyMap
    /\ cur = NoCur
    /\ todo = 0
    /\ queries = <<>>
    /\ posts = <<>>
    /\ fileReads = 0
    /\ fileWrites = 0
    /\ runs = 0
    /\ prev = NoPrev
    /\ input \in GitCalls
    /\ output = <<>>
    /\ calls = 0

\* get_commits(since_date, until_date) or list_tags() in the repository scen
GitCall ==
    /\ calls = 0
    /\ output' = IF input.fn = "get_commits"
                 THEN <<git_get_commits(scen.commits, now, input.since_date,
                                        input.until_date, input.run)>>
                 ELSE <<git_list_tags(scen.tags, now, input.run, input.date_run)>>
    /\ calls' = 1
    /\ UNCHANGED <<docVars, input>>

SpecGit == InitGit /\ [][GitCall]_vars

-----------------------------------------------------------------------------
(* doculog.config.parse_config                                             *)

\* s.strip("'").strip('"')
Unquote(s) == LStripChars(RStripChars(LStripChars(RStripChars(s, {"'"}), {"'"}), {"\""}), {"\""})

\* s.endswith(w)
EndsWith(s, w) == Len(s) >= Len(w) /\ SubSeq(s, Len(s) - Len(w) + 1, Len(s)) = w

\* ConfigParser.getboolean: the words it reads as a boolean, compared in lower case
BooleanWords ==
    {<<<<"1">>, TRUE>>, <<<<"y","e","s">>, TRUE>>, <<<<"t","r","u","e">>, TRUE>>, <<<<"o","n">>, TRUE>>,
     <<<<"0">>, FALSE>>, <<<<"n","o">>, FALSE>>, <<<<"f","a","l","s","e">>, FALSE>>, <<<<"o","f","f">>, FALSE>>}

IsBoolean(value) == \E p \in BooleanWords : p[1] = Lower(value)

getboolean(value) == (CHOOSE p \in BooleanWords : p[1] = Lower(value))[2]

\* str(local)
BoolStr(b) == IF b THEN <<"T","r","u","e">> ELSE <<"F","a","l","s","e">>

\* project_root.stem
ProjectStem == <<"m","y","p","r","o","j">>

\* parse_config: DEFAULT_VARS
DEFAULT_VARS ==
    [DOCULOG_PROJECT_NAME |-> SetTo(ProjectStem), DOCULOG_RUN_LOCALLY |-> SetTo(<<"f","a","l","s","e">>)]

\* parse_config: DEFAULT_CONFIG
DEFAULT_CONFIG == [changelog_name |-> <<"C","H","A","N","G","E","L","O","G",".","m","d">>, local |-> FALSE]

\* parse_config: local, where getboolean raising ValueError or NoOptionError gives False
local_of(section) ==
    IF section.local.set /\ IsBoolean(section.local.value)
    THEN getboolean(section.local.value)
    ELSE FALSE

\* parse_config: changelog_name
changelog_name_of(section) ==
    LET changelog_name == IF section.changelog.set THEN Unquote(section.changelog.value)
                          ELSE DEFAULT_CONFIG.changelog_name
    IN  IF EndsWith(changelog_name, <<".","m","d">>) THEN changelog_name
        ELSE changelog_name \o <<".","m","d">>

\* parse_config: project_name
project_name_of(section) ==
    IF section.project.set THEN Unquote(section.project.value)
    ELSE DEFAULT_VARS.DOCULOG_PROJECT_NAME.value

\* pyproject.toml: absent, without a [tool.doculog] section, or with one whose
\* options are given or not
ConfigFiles ==
    {[exists |-> FALSE, has_section |-> FALSE,
      section |-> [local |-> Unset, changelog |-> Unset, project |-> Unset]],
     [exists |-> TRUE, has_section |-> FALSE,
      section |-> [local |-> Unset, changelog |-> Unset, project |-> Unset]]}
    \cup [exists : {TRUE}, has_section : {TRUE},
          section : [local : {Unset, SetTo(<<"t","r","u","e">>), SetTo(<<"T","r","u","e">>), SetTo(<<"f","a","l","s","e">>),
                              SetTo(<<"y","e","s">>), SetTo(<<"0">>), SetTo(<<"\"","s","o","m","e","o","t","h","e","r","v","a","l","u","e","\"">>),
                              SetTo(<<>>)},
                     changelog : {Unset, SetTo(<<"\"","c","h","a","n","g","e","l","o","g","\"">>), SetTo(<<"n","o","t","e","s",".","m","d">>)},
                     project : {Unset, SetTo(<<"'","D","o","c","u","l","o","g","'">>)}]]

\* parse_config(project_root): the environment variables it sets and what it returns
parse_config(env, config_file) ==
    IF ~config_file.exists \/ ~config_file.has_section
    THEN [env |-> [env EXCEPT !.DOCULOG_PROJECT_NAME = DEFAULT_VARS.DOCULOG_PROJECT_NAME,
                              !.DOCULOG_RUN_LOCALLY = DEFAULT_VARS.DOCULOG_RUN_LOCALLY],
          config |-> DEFAULT_CONFIG]
    ELSE [env |-> [env EXCEPT !.DOCULOG_PROJECT_NAME =
                                  SetTo(project_name_of(config_file.section)),
                              !.DOCULOG_RUN_LOCALLY =
                                  SetTo(BoolStr(local_of(config_file.section)))],
          config |-> [changelog_name |-> changelog_name_of(config_file.section),
                      local |-> local_of(config_file.section)]]

InitConfig ==
    /\ DocIdle
    /\ input \in [env : [DOCULOG_PROJECT_NAME : {Unset},
                         DOCULOG_RUN_LOCALLY : {Unset, SetTo(<<"T","r","u","e">>), SetTo(<<"F","a","l","s","e">>)}],
                  config_file : ConfigFiles]
    /\ output = <<>>
    /\ calls = 0

\* parse_config(project_root) in the environment input.env
ParseConfig ==
    /\ calls = 0
    /\ output' = <<parse_config(input.env, input.config_file)>>
    /\ calls' = 1
    /\ UNCHANGED <<docVars, input>>

SpecConfig == InitConfig /\ [][ParseConfig]_vars

-----------------------------------------------------------------------------
(* ChangelogRelease.generate over a long history                           *)

\* the most commits a window of the long history holds
MaxCommits == 52

\* the titles of the long history, in turn
LongTitles == <<<<"A","d","d"," ","a","p","i">>, <<"G","o","o","g","l","e"," ","i","t">>, <<"F","i","x"," ","b","u","g">>>>

\* a repository without tags whose n commits are of one day; the third has an
\* empty title
RepoLong(n) ==
    [name |-> "long", lastDay |-> 1,
     commits |-> [i \in 1..n |-> Commit(IF i = 3 THEN <<>> ELSE LongTitles[(i % 3) + 1], 1)],
     tags |-> <<>>]

\* the run at the point where ChangelogDoc.generate, in a repository without
\* tags or changelog file, has called generate on the new Unreleased release
InitGenerate ==
    /\ scen \in {RepoLong(n) : n \in 0..MaxCommits}
    /\ now = 1
    /\ gitOK = TRUE
    /\ api_key \in BOOLEAN
    /\ file = NoFile
    /\ pc = "generating"
    /\ has_git = TRUE
    /\ tags = <<>>
    /\ cur = BeginRelease(ChangelogUnreleased, TRUE, EarlyDate)
    /\ releases = Put(EmptyMap, Unreleased, cur.rel)
    /\ todo = 1
    /\ queries = <<Query(ChangelogUnreleased, EarlyDate)>>
    /\ posts = <<>>
    /\ fileReads = 0
    /\ fileWrites = 0
    /\ runs = 0
    /\ prev = NoPrev
    /\ input = <<>>
    /\ output = <<>>
    /\ calls = 0

NextGenerate ==
    \/ TrackCommit
    \/ FinishRelease

SpecGenerate == InitGenerate /\ [][NextGenerate]_vars
-----------------------------------------------------------------------------
(* Properties                                                              *)

\* the lines of a section as a set
LineSet(commits) == {commits[i] : i \in 1..Len(commits)}

\* the line add_commit stores for a text
BulletOf(text) == add_commit(<<>>, text)[1]

\* the tags of doctags whose release the previous run wrote into the file
WrittenBefore(doctags) ==
    {i \in 1..Len(doctags) :
        /\ prev.saved
        /\ vless_tag(doctags[i][1]) \in DOMAIN prev.releases
        /\ \E j \in 1..Len(prev.tags) : prev.tags[j][1] = doctags[i][1]}

\* C1: when generate has run over the file a previous run saved, every tag whose
\* release that run wrote has caused no history query, and its release holds, per
\* category, exactly the bullet lines the previous run wrote for it.
C1_WrittenReleasesAreKept ==
    (pc = "generated" /\ has_git) =>
        \A i \in WrittenBefore(tags) :
            LET v == vless_tag(tags[i][1])
            IN  /\ \A q \in 1..Len(queries) : queries[q].version # v
                /\ v \in DOMAIN releases
                /\ releases[v].sections = prev.releases[v].sections

\* C1, a state where it binds: a second run over a file holding a tagged release
C1_Reached ==
    /\ pc = "generated"
    /\ has_git
    /\ WrittenBefore(tags) # {}

\* the window generate is to use for the release of version v
ExpectedWindow(doctags, v) ==
    IF v = <<"U","n","r","e","l","e","a","s","e","d">>
    THEN <<IF Len(doctags) = 0 THEN <<"1","9","9","9","-","0","1","-","0","1">> ELSE doctags[1][2], <<"2","0","9","9","-","0","1","-","0","1">>>>
    ELSE LET at == {k \in 1..Len(doctags) : Strip(LStripChars(doctags[k][1], {"v"})) = v}
             i == CHOOSE k \in at : \A m \in at : k <= m
         IN  <<IF i = Len(doctags) THEN <<"1","9","9","9","-","0","1","-","0","1">> ELSE doctags[i + 1][2], doctags[i][2]>>

\* C2: every history query of generate has the window of its release: for
\* Unreleased from the newest tag's date (the early date without tags) to the far
\* date, for a tag from the next older tag's date (the early date for the oldest)
\* to its own date; and with the single tag v1.0.0, the commit after the tag's day
\* is in Unreleased and not in 1.0.0, the commit before it in 1.0.0 and not in
\* Unreleased.
C2_Windows ==
    /\ \A q \in 1..Len(queries) :
           /\ queries[q].version # <<"U","n","r","e","l","e","a","s","e","d">> =>
                  \E k \in 1..Len(tags) :
                      Strip(LStripChars(tags[k][1], {"v"})) = queries[q].version
           /\ <<queries[q].since, queries[q].until>> = ExpectedWindow(tags, queries[q].version)
    /\ (pc = "generated" /\ has_git /\ scen = RepoSingle /\ Len(tags) = 1) =>
           /\ <<"1",".","0",".","0">> \in DOMAIN releases
           /\ <<"*"," ","A","p","i">> \in LineSet(releases[<<"1",".","0",".","0">>].sections["Added"])
           /\ \A c \in Categories :
                  /\ <<"*"," ","A","p","i">> \notin LineSet(releases[<<"U","n","r","e","l","e","a","s","e","d">>].sections[c])
                  /\ <<"*"," ","B","u","g">> \notin LineSet(releases[<<"1",".","0",".","0">>].sections[c])
           /\ now = 3 => <<"*"," ","B","u","g">> \in LineSet(releases[<<"U","n","r","e","l","e","a","s","e","d">>].sections["Fixed"])

\* C2, a state where it binds: both windows queried, a commit on each side of the tag
C2_Reached ==
    /\ pc = "generated"
    /\ scen = RepoSingle
    /\ now = 3
    /\ Len(queries) = 2
    /\ <<"*"," ","B","u","g">> \in LineSet(releases[<<"U","n","r","e","l","e","a","s","e","d">>].sections["Fixed"])
    /\ <<"*"," ","A","p","i">> \in LineSet(releases[<<"1",".","0",".","0">>].sections["Added"])

C3_Step ==
    /\ (~has_git /\ pc \in {"constructed", "generated"}) =>
           /\ releases' = releases
           /\ file' = file
           /\ fileReads' = fileReads
           /\ fileWrites' = fileWrites
    /\ (has_git /\ pc \in {"constructed", "generated"} /\ pc' = "saved") =>
           /\ file'.exists
           /\ file'.content = Doc_str(releases, tags)
           /\ fileWrites' = fileWrites + 1

\* C3: without a repository neither generate nor save changes the releases or the
\* file, and the file is opened neither for reading nor for writing; with a
\* repository save writes the rendered document to the file.
C3_NoRepositoryNoEffect == [][C3_Step]_vars

\* C3, a state where it binds: generate and save have run without a repository
\* and left no file
C3_Reached ==
    /\ pc = "saved"
    /\ ~has_git
    /\ runs = 0
    /\ ~file.exists
    /\ fileReads = 0
    /\ fileWrites = 0
    /\ releases = EmptyMap

\* the release a flush has just merged a batch into
AfterFlush == IF pc' = "generating" /\ cur'.i = cur.i + 1 THEN cur'.rel
              ELSE releases'[cur.rel.version]

C4_Step ==
    (/\ pc = "generating"
     /\ Len(posts') = Len(posts) + 1
     /\ posts'[Len(posts')].sent
     /\ posts'[Len(posts')].response.kind = "None") =>
        LET batch == posts'[Len(posts')].payload
            before == cur.rel.sections
            after == AfterFlush.sections
        IN  /\ \A i \in 1..Len(batch) : batch[i][1] \in Categories \cup {None}
            /\ \A i \in 1..Len(batch) :
                   batch[i][1] # None => BulletOf(batch[i][2]) \in LineSet(after[batch[i][1]])
            /\ \A c \in Categories :
                   LineSet(after[c]) \subseteq
                       LineSet(before[c])
                       \cup {BulletOf(batch[i][2]) : i \in {k \in 1..Len(batch) : batch[k][1] = c}}
            /\ AfterFlush.batched = <<>>
            /\ pc' \in {"generating", "generated"}

\* C4: when a key is set and the gateway call of a batch fails, the batch as
\* classified by the verb table is merged: each item with a category is in that
\* category's section afterwards, no section gains any other line (so an item
\* without a category is added nowhere), and generate goes on.
C4_FailedGatewayFallsBack == [][C4_Step]_vars

\* C4, a state where it binds: a failed call for a batch holding both kinds of item
C4_Reached ==
    /\ pc = "generated"
    /\ \E p \in 1..Len(posts) :
           /\ posts[p].sent
           /\ posts[p].response.kind = "None"
           /\ \E i \in 1..Len(posts[p].payload) : posts[p].payload[i][1] = None
           /\ \E i \in 1..Len(posts[p].payload) : posts[p].payload[i][1] # None

\* the part of a title before its first space
FirstWord(s) ==
    LET at == {i \in 1..Len(s) : s[i] = " "}
    IN  IF at = {} THEN s ELSE SubSeq(s, 1, (CHOOSE i \in at : \A j \in at : i <= j) - 1)

\* C5: a title whose first word, lower-cased, is a verb of the table gets the
\* category the table gives that verb.
C5_VerbGivesCategory ==
    calls = 1 =>
        \A p \in commit_types_table :
            Lower(FirstWord(input)) = p[1] => output[1] = p[2]

\* C5, a state where it binds: a capitalized verb was classified
C5_Reached ==
    /\ calls = 1
    /\ input = <<"F","i","x"," ","t","h","e"," ","l","o","g","i","n"," ","b","u","g">>
    /\ output[1] = "Fixed"

\* C6: a title whose first word is no verb of the table comes back unchanged,
\* with no category.
C6_MissReturnsTitle ==
    (calls = 1 /\ Lower(FirstWord(input)) \notin commit_verbs) =>
        output = <<None, input>>

\* C6, a state where it binds: a title with capitals and no verb was classified
C6_Reached ==
    /\ calls = 1
    /\ input = <<"G","o","o","g","l","e"," ","a"," ","t","e","s","t"," ","c","o","m","m","i","t">>
    /\ output[1] = None

\* C7: on a hit the cleaned text is the lower-cased title without exactly its
\* leading verb, stripped, with its first letter capitalized.
C7_OnlyLeadingVerbRemoved ==
    (calls = 1 /\ Lower(FirstWord(input)) \in commit_verbs) =>
        output[2] = Capitalize(Strip(SubSeq(Lower(input), Len(FirstWord(input)) + 1,
                                            Len(input))))

\* the k-th smallest member of a set of numbers
Kth(S, k) == CHOOSE i \in S : Cardinality({j \in S : j <= i}) = k

\* the first occurrence of each line of s, in the order of s
FirstSeen(s) ==
    LET keep == {i \in 1..Len(s) : \A j \in 1..(i - 1) : s[j] # s[i]}
    IN  [k \in 1..Cardinality(keep) |-> s[Kth(keep, k)]]

\* C8: remove_duplicates leaves the first occurrence of each line, in order (a
\* list without duplicates as it is), and a second call changes nothing.
C8_RemoveDuplicates ==
    /\ calls >= 1 =>
           /\ output[1] = FirstSeen(input)
           /\ (Cardinality(LineSet(input)) = Len(input) => output[1] = input)
    /\ calls = 2 => output[2] = output[1]

\* C8, a state where it binds: two calls on a list that held duplicates
C8_Reached ==
    /\ calls = 2
    /\ Len(input) = 4
    /\ Len(output[1]) = 2
    /\ input[1] = input[3]

\* C9: a release rendered and read back from the rendered lines into a new release
\* has in each of the five categories the lines it had, in their order.
C9_RoundTrip ==
    output # <<>> =>
        \A c \in Categories : output[1].sections[c] = input.sections[c]

\* C10 as stated: after generate the releases hold one entry keyed Unreleased,
\* whatever the repository state was.
C10_UnreleasedAfterEveryGenerate ==
    pc = "generated" =>
        Cardinality({k \in DOMAIN releases : k = <<"U","n","r","e","l","e","a","s","e","d">>}) = 1

\* C10: after generate has run with a repository, the releases hold one entry
\* keyed Unreleased.
C10_UnreleasedAfterGenerate ==
    (pc = "generated" /\ has_git) =>
        Cardinality({k \in DOMAIN releases : k = <<"U","n","r","e","l","e","a","s","e","d">>}) = 1

\* C10, a state where it binds: generate has run over a file whose heading was
\* written "unreleased", with tags in the repository
C10_Reached ==
    /\ pc = "generated"
    /\ has_git
    /\ Len(tags) > 0
    /\ <<"u","n","r","e","l","e","a","s","e","d">> \in DOMAIN releases
    /\ <<"U","n","r","e","l","e","a","s","e","d">> \in DOMAIN releases

\* whether no line occurs twice in commits
NoDuplicates(commits) ==
    \A i, j \in 1..Len(commits) : commits[i] = commits[j] => i = j

\* the releases whose read or generate has returned
Returned ==
    {v \in DOMAIN releases :
        pc = "generated" \/ ~(cur.active /\ cur.in_place /\ v = Unreleased)}

\* C11: once generate has read the file, and when it completes, no section of a
\* release whose read or generate has returned holds a line twice.
C11_NoDuplicateLines ==
    (has_git /\ pc \in {"generating", "generated"}) =>
        \A v \in Returned : \A c \in Categories : NoDuplicates(releases[v].sections[c])

\* C11, a state where it binds: generate has completed over a file with releases
C11_Reached ==
    /\ has_git
    /\ pc = "generated"
    /\ file = EditedFile
    /\ <<"1",".","0",".","0">> \in DOMAIN releases
    /\ Len(releases[<<"1",".","0",".","0">>].sections["Added"]) = 3

\* the releases generate holds, the one being generated for a tag included
Instances ==
    {releases[v] : v \in DOMAIN releases}
    \cup (IF cur.active /\ ~cur.in_place THEN {cur.rel} ELSE {})

\* C12 as stated: no release instance has had both read and generate called on it.
C12_ReadOrGenerateNeverBoth ==
    \A r \in Instances : r.called \in {<<>>, <<"read">>, <<"generate">>}

\* whether the file generate read holds the newest tag as a release
NewestTagInFile ==
    Len(tags) = 0 \/ VLess(tags[1][1]) \in DOMAIN ReadExisting(EmptyMap, tags, file)

\* C12: during and after generate every release instance has had read called once,
\* or generate once, or read and then generate; the last only the Unreleased
\* release that read took from a file which holds the newest tag as a release.
C12_ReadThenGenerateOnlyKeptUnreleased ==
    (has_git /\ pc \in {"generating", "generated"}) =>
        \A v \in DOMAIN releases :
            /\ releases[v].called \in {<<"read">>, <<"generate">>, <<"read", "generate">>}
            /\ releases[v].called = <<"read", "generate">> =>
                   /\ v = Unreleased
                   /\ file.exists
                   /\ Unreleased \in DOMAIN ReadExisting(EmptyMap, tags, file)
                   /\ NewestTagInFile
            /\ v # Unreleased => releases[v].called # <<"read", "generate">>

\* C12, a state where it binds: generate has completed on the Unreleased release
\* read from the file, beside a release read and a release generated
C12_Reached ==
    /\ has_git
    /\ pc = "generated"
    /\ releases[Unreleased].called = <<"read", "generate">>
    /\ \E v \in DOMAIN releases : releases[v].called = <<"read">>
    /\ \E v \in DOMAIN releases : releases[v].called = <<"generate">> /\ v # Unreleased

\* whether what post returned is a list of pairs, each naming a category or None
ListOfPairs(response) ==
    /\ response.kind = "list"
    /\ \A i \in 1..Len(response.items) :
           /\ Len(response.items[i]) = 2
           /\ response.items[i][1] \in Categories \cup {None}

C13_Step ==
    (/\ pc = "generating"
     /\ Len(posts') = Len(posts) + 1
     /\ posts'[Len(posts')].sent
     /\ ListOfPairs(posts'[Len(posts')].response)) =>
        LET items == posts'[Len(posts')].response.items
            before == cur.rel.sections
            after == AfterFlush.sections
        IN  /\ pc' # "raised"
            /\ \A c \in Categories :
                   LineSet(after[c]) =
                       LineSet(before[c])
                       \cup {BulletOf(items[i][2]) : i \in {k \in 1..Len(items) : items[k][1] = c}}
            /\ AfterFlush.batched = <<>>

\* C13: when the gateway returns a list of pairs for a batch, the empty list
\* included, each section holds afterwards what it held plus the returned pairs of
\* its category and nothing of the batch as it was sent; the batch is empty.
C13_NonNullResultIsMerged == [][C13_Step]_vars

\* C13, a state where it binds: the gateway answered a batch with the empty list
C13_Reached ==
    /\ pc = "generated"
    /\ \E p \in 1..Len(posts) :
           /\ posts[p].sent
           /\ posts[p].response = ListResponse(<<>>)
           /\ \E i \in 1..Len(posts[p].payload) : posts[p].payload[i][1] # None

\* C15: whatever the gateway answers (no answer, an error status, a list of pairs,
\* a plain string, an object, a pair naming a category that is none of the five),
\* generate goes on to its end: no run ends with an exception.
C15_GenerateNeverRaises == pc # "raised"

\* C15, a state where it binds: generate has completed after a gateway answer
\* that was a list of pairs
C15_Reached ==
    /\ pc = "generated"
    /\ \E p \in 1..Len(posts) :
           /\ posts[p].sent
           /\ ListOfPairs(posts[p].response)
           /\ posts[p].response.items # <<>>

\* whether the environment holds a credential
Keyed(env) ==
    \/ (env.DOCUMATIC_API_KEY.set /\ Len(env.DOCUMATIC_API_KEY.value) > 0)
    \/ (env.DOCULOG_API_KEY.set /\ Len(env.DOCULOG_API_KEY.value) > 0)

HeadingOf(line, c) ==
    MatchHeading(line) /\ Lower(Strip(LStripChars(line, {"#"}))) = Lower(Title(c))

\* the positions after heading i up to the next heading of any kind
Under(lines, i) ==
    {k \in (i + 1)..Len(lines) : \A j \in (i + 1)..k : ~MatchHeading(lines[j])}

\* the bullet lines under heading i, in order, without their trailing whitespace
BulletsUnder(lines, i) ==
    LET at == {k \in Under(lines, i) : MatchBullet(lines[k])}
    IN  [n \in 1..Cardinality(at) |-> RStrip(lines[Kth(at, n)])]

\* the bullet lines under the headings of category c, heading after heading
RECURSIVE BulletsOfCategory(_, _, _)
BulletsOfCategory(lines, c, i) ==
    IF i > Len(lines) THEN <<>>
    ELSE (IF HeadingOf(lines[i], c) THEN BulletsUnder(lines, i) ELSE <<>>)
         \o BulletsOfCategory(lines, c, i + 1)

\* C16: after read each category's section holds the bullet lines between that
\* category's headings and the next heading of any kind, in order, and no others.
C16_ReadTakesBulletsUnderHeadings ==
    calls = 1 =>
        \A c \in Categories : output[1].sections[c] = BulletsOfCategory(input, c, 1)

\* C16, a state where it binds: two category headings with a bullet each were read
C16_Reached ==
    /\ calls = 1
    /\ input = <<<<"#","#","#"," ","A","d","d","e","d","\n">>, <<"*"," ","a","n"," ","u","p","d","a","t","e","\n">>, <<"#","#"," ","r","e","m","o","v","e","d">>, <<" "," ","-"," ","a"," ","s","u","b"," ","u","p","d","a","t","e">>>>
    /\ output[1].sections["Added"] = <<<<"*"," ","a","n"," ","u","p","d","a","t","e">>>>
    /\ output[1].sections["Removed"] = <<<<" "," ","-"," ","a"," ","s","u","b"," ","u","p","d","a","t","e">>>>

\* whether s is, after n characters of whitespace, a "*" or "-" and then a space
MarkerAfter(s, n) ==
    /\ Len(s) >= n + 2
    /\ \A i \in 1..n : s[i] \in {" ", "\t", "\n"}
    /\ s[n + 1] \in {"*", "-"}
    /\ s[n + 2] = " "

\* whether s begins, after optional whitespace, with "* " or "- "
BeginsWithMarker(s) == \E n \in 0..Len(s) : MarkerAfter(s, n)

\* C17: add_commit appends one line to the lines held: the text as it is when it
\* begins with a bullet marker, the text after "* " otherwise, without trailing
\* whitespace in both cases; the stored line begins with "* " or "- ".
C17_AddCommitStoresBullet ==
    calls = 1 =>
        LET held == input.commits
            now_held == output[1]
            line == now_held[Len(now_held)]
        IN  /\ Len(now_held) = Len(held) + 1
            /\ SubSeq(now_held, 1, Len(held)) = held
            /\ line = RStripChars(IF BeginsWithMarker(input.text) THEN input.text
                                  ELSE <<"*", " ">> \o input.text,
                                  {" ", "\t", "\n"})
            /\ BeginsWithMarker(line)

\* C17, a state where it binds: a sub-bullet was added to a section holding a line
C17_Reached ==
    /\ calls = 1
    /\ input.text = <<" "," ","-"," ","s","o","m","e"," ","n","e","w"," ","u","p","d","a","t","e">>
    /\ output[1] = <<<<"*"," ","A","p","i">>, <<" "," ","-"," ","s","o","m","e"," ","n","e","w"," ","u","p","d","a","t","e">>>>

\* the release instances generate has been called on
Generated == {r \in Instances : \E i \in 1..Len(r.called) : r.called[i] = "generate"}

\* C18: the history has been queried once for each release generate was called
\* on and not otherwise; the query of a release starts at the start date generate
\* was given and ends at the release's date, the far date for Unreleased.
C18_OneQueryPerGenerate ==
    (has_git /\ pc \in {"generating", "generated"}) =>
        /\ Len(queries) = Cardinality(Generated)
        /\ \A r \in Generated :
               \E q \in 1..Len(queries) :
                   /\ queries[q].version = r.version
                   /\ queries[q].since = ExpectedWindow(tags, r.version)[1]
                   /\ queries[q].until = r.date
                   /\ r.cls = "ChangelogUnreleased" => queries[q].until = <<"2","0","9","9","-","0","1","-","0","1">>
                   /\ \A p \in 1..Len(queries) : queries[p].version = r.version => p = q

\* C18, a state where it binds: generate has been called on Unreleased and on the
\* releases of two tags
C18_Reached ==
    /\ has_git
    /\ pc = "generated"
    /\ Len(queries) = 3
    /\ \E q \in 1..Len(queries) : queries[q].until = <<"2","0","2","1","-","0","1","-","0","1">>

\* the releases of the tags, each once, in the order of the tags
TaggedReleases(rels, doctags) ==
    LET at == {i \in 1..Len(doctags) :
                  /\ Strip(LStripChars(doctags[i][1], {"v"})) \in DOMAIN rels
                  /\ \A j \in 1..(i - 1) :
                         Strip(LStripChars(doctags[j][1], {"v"})) #
                         Strip(LStripChars(doctags[i][1], {"v"}))}
    IN  [n \in 1..Cardinality(at) |-> rels[Strip(LStripChars(doctags[Kth(at, n)][1], {"v"}))]]

\* the preamble, Unreleased if there is one, and each given release after a blank line
Rendering(rels, tagged) ==
    <<"#"," ","C","h","a","n","g","e","l","o","g","\n","\n","B","a","s","e","d"," ","o","n"," ","K","e","e","p","A","C","h","a","n","g","e","l","o","g",".","\n","G","e","n","e","r","a","t","e","d"," ","b","y"," ","*","*","D","o","c","u","m","a","t","i","c",".","*","*","\n","\n">>
    \o (IF <<"U","n","r","e","l","e","a","s","e","d">> \in DOMAIN rels THEN Strip(Release_str(rels[<<"U","n","r","e","l","e","a","s","e","d">>]))
        ELSE <<>>)
    \o Concat([n \in 1..Len(tagged) |-> <<"\n","\n">> \o Strip(Release_str(tagged[n]))])
    \o <<"\n">>

\* C19: the rendered document is the preamble, then Unreleased if present, then the
\* release of every tag that has one, each once, in the order of the tags, each
\* after one blank line; save writes this text.
C19_RenderOrder ==
    /\ pc \in {"constructed", "generated", "saved"} =>
           Doc_str(releases, tags) = Rendering(releases, TaggedReleases(releases, tags))
    /\ (pc = "saved" /\ has_git) =>
           file.content = Rendering(releases, TaggedReleases(releases, tags))

\* C19, a state where it binds: a document with Unreleased and two tagged releases
\* was saved
C19_Reached ==
    /\ pc = "saved"
    /\ has_git
    /\ Len(TaggedReleases(releases, tags)) = 2
    /\ \E c \in Categories : releases[<<"U","n","r","e","l","e","a","s","e","d">>].sections[c] # <<>>

\* whether a text ends with one newline and no more
EndsWithOneNewline(text) ==
    /\ Len(text) >= 1
    /\ text[Len(text)] = "\n"
    /\ Len(text) >= 2 => text[Len(text) - 1] # "\n"

\* C20: whenever the document exists, before or after generate, its rendered text
\* ends with exactly one newline, and so does the file save has written.
C20_OneTrailingNewline ==
    /\ pc \in {"constructed", "generating", "generated", "saved"} =>
           EndsWithOneNewline(Doc_str(releases, tags))
    /\ (pc = "saved" /\ has_git) => EndsWithOneNewline(file.content)

\* C20, a state where it binds: a document saved after generate with a tagged release
C20_Reached ==
    /\ pc = "saved"
    /\ has_git
    /\ fileWrites = 1
    /\ <<"U","n","r","e","l","e","a","s","e","d">> \in DOMAIN releases
    /\ Len(tags) > 0
    /\ EndsWithOneNewline(file.content)

\* C21: header gives "## Unreleased", without a date, for every release whose
\* version is "Unreleased", and "## <version> - <date>" for every other release.
C21_HeaderByVersion ==
    calls = 1 =>
        output[1] = IF input.version = <<"U","n","r","e","l","e","a","s","e","d">> THEN <<"#","#"," ","U","n","r","e","l","e","a","s","e","d">>
                    ELSE <<"#","#"," ">> \o input.version \o <<" ","-"," ">> \o input.date

\* C21, a state where it binds: header was called on the release read makes for
\* "## Unreleased" and gave the heading without a date
C21_Reached ==
    /\ calls = 1
    /\ input = ChangelogUnreleased
    /\ output[1] = <<"#","#"," ","U","n","r","e","l","e","a","s","e","d">>

\* whether a git invocation of the call failed
GitFailed ==
    \/ input.run # "ok"
    \/ (input.fn = "list_tags" /\ list_tags(scen.tags, now) # <<>> /\ input.date_run # "ok")

\* C22: get_commits and list_tags never raise, and return an empty sequence
\* whenever a git invocation they make fails: git exits non-zero or is not found,
\* the lookup of a tag's date included.
C22_GitFailureGivesEmpty ==
    calls = 1 =>
        /\ ~output[1].raised
        /\ GitFailed => output[1].value = <<>>

\* C22, a state where it binds: git log exited non-zero and get_commits returned
\* the empty list
C22_Reached ==
    /\ calls = 1
    /\ input.fn = "get_commits"
    /\ input.run = "CalledProcessError"
    /\ output[1] = Returns(<<>>)

\* whether the project configuration sets local to a true boolean
LocalSetTrue(config_file) ==
    /\ config_file.exists
    /\ config_file.has_section
    /\ config_file.section.local.set
    /\ Lower(config_file.section.local.value) \in {<<"1">>, <<"y","e","s">>, <<"t","r","u","e">>, <<"o","n">>}

\* C23: after parse_config DOCULOG_RUN_LOCALLY is "True" if and only if the
\* configuration sets local to a true boolean, and "False" in every other case:
\* local absent or no boolean, no [tool.doculog] section, no pyproject.toml.
C23_RunLocallyIsTrueOrFalse ==
    calls = 1 =>
        output[1].env.DOCULOG_RUN_LOCALLY =
            IF LocalSetTrue(input.config_file) THEN SetTo(<<"T","r","u","e">>) ELSE SetTo(<<"F","a","l","s","e">>)

\* C23, a state where it binds: local is given and no boolean, and the variable,
\* "True" before, is "False" after
C23_Reached ==
    /\ calls = 1
    /\ input.config_file.has_section
    /\ input.config_file.section.local = SetTo(<<"\"","s","o","m","e","o","t","h","e","r","v","a","l","u","e","\"">>)
    /\ input.env.DOCULOG_RUN_LOCALLY = SetTo(<<"T","r","u","e">>)
    /\ output[1].env.DOCULOG_RUN_LOCALLY = SetTo(<<"F","a","l","s","e">>)

\* whether a line of the file is a version heading that carries a date:
\* "## <version> - YYYY-MM-DD"
DatedHeading(line) ==
    LET s == Strip(line)
    IN  /\ Len(s) >= 17
        /\ SubSeq(s, 1, 3) = <<"#","#"," ">>
        /\ SubSeq(s, Len(s) - 12, Len(s) - 10) = <<" ","-"," ">>
        /\ MatchVersion(VLess(SubSeq(s, 4, Len(s) - 13)))

\* the version a dated heading names, without the v
HeadingVersion(line) == VLess(SubSeq(Strip(line), 4, Len(Strip(line)) - 13))

\* the date a dated heading carries
HeadingDate(line) == SubSeq(Strip(line), Len(Strip(line)) - 9, Len(Strip(line)))

\* C24: once generate has read the file, the release made for a version heading
\* that carries a date has that date.
C24_HeadingDateIsUsed ==
    (has_git /\ file.exists /\ pc \in {"generating", "generated"}) =>
        \A i \in 1..Len(ReadLines(file.content)) :
            LET line == ReadLines(file.content)[i]
            IN  DatedHeading(line) =>
                    /\ HeadingVersion(line) \in DOMAIN releases
                    /\ releases[HeadingVersion(line)].date = HeadingDate(line)

\* C24, a state where it binds: generate has read a file whose heading for 1.0.0
\* carries the date of another day than the tag's
C24_Reached ==
    /\ has_git
    /\ pc = "generated"
    /\ file = EditedFile
    /\ scen = RepoTwo
    /\ <<"1",".","0",".","0">> \in DOMAIN releases
    /\ releases[<<"1",".","0",".","0">>].called = <<"read">>

\* whether s is the beginning of t
IsPrefix(s, t) == Len(s) <= Len(t) /\ SubSeq(t, 1, Len(s)) = s

\* the releases the file of this run holds, as generate read them
FileReleases == ReadExisting(EmptyMap, tags, file)

\* whether releases read have no "Unreleased" entry or lack the newest tag's release
WasCut(read) ==
    \/ Unreleased \notin DOMAIN read
    \/ (Len(tags) > 0 /\ VLess(tags[1][1]) \notin DOMAIN read)

\* whether the file has no "Unreleased" entry or lacks the newest tag's release
ReleaseWasCut == WasCut(FileReleases)

\* what the gateway call p of this run put into the sections
PostItems(p) ==
    IF Truthy(posts[p].response) THEN posts[p].response.items ELSE posts[p].payload

\* the bullets this run's gateway calls for Unreleased put under category c
NewBullets(c) ==
    UNION {{add_commit(<<>>, PostItems(p)[k][2])[1] :
               k \in {j \in 1..Len(PostItems(p)) : PostItems(p)[j][1] = c}} :
           p \in {q \in 1..Len(posts) : posts[q].version = Unreleased}}

\* whether generate on Unreleased has returned
UnreleasedDone == pc = "generated" \/ ~(cur.active /\ cur.in_place)

C25_ResetReached ==
    /\ has_git
    /\ pc = "generated"
    /\ Unreleased \in DOMAIN FileReleases
    /\ \E c \in Categories : Len(FileReleases[Unreleased].sections[c]) > 0
    /\ ReleaseWasCut

\* the commits generate has visited that have a title, classified, in their order
Tracked ==
    LET visited == IF pc = "generated" THEN scen.commits
                   ELSE SubSeq(scen.commits, 1, cur.i - 1)
        titled == SelectSeq(visited, LAMBDA c : c.title # <<>>)
    IN  [k \in 1..Len(titled) |-> catalog_commit(titled[k].title)]

\* the batch generate holds
Pending == releases[Unreleased].batched

\* C26: while generate runs and when it has returned, the batch holds fewer than
\* 25 entries after every track_commit, every payload handed to the gateway holds
\* 1 to 25 entries, a flush has happened for every 25 titled commits visited and,
\* when generate has returned, once more iff a remainder was pending: ceil(n/25)
\* flushes for n titled commits.
C26_BatchesOfAtMost25 ==
    pc \in {"generating", "generated"} =>
        /\ Len(Pending) < 25
        /\ \A p \in 1..Len(posts) : Len(posts[p].payload) \in 1..25
        /\ pc = "generating" =>
               /\ Len(posts) = Len(Tracked) \div 25
               /\ Len(Pending) = Len(Tracked) % 25
        /\ pc = "generated" =>
               /\ Len(posts) = (Len(Tracked) + 24) \div 25
               /\ Len(Pending) = 0

\* C26, a state where it binds: generate has returned after 51 titled commits,
\* with two flushes of 25 and one of the last commit
C26_Reached ==
    /\ pc = "generated"
    /\ Len(Tracked) = 51
    /\ Len(posts) = 3
    /\ Len(posts[1].payload) = 25
    /\ Len(posts[2].payload) = 25
    /\ Len(posts[3].payload) = 1

\* the payloads handed to the gateway so far, one after the other
Submitted == Concat([p \in 1..Len(posts) |-> posts[p].payload])

\* C27: the commits with a title that generate has visited are, classified and in
\* history order, exactly the entries of the payloads handed to the gateway
\* followed by the pending batch, so each is submitted once and no payload is
\* handed over again; when generate has returned the pending batch is empty.
C27_EachCommitSubmittedOnce ==
    pc \in {"generating", "generated"} =>
        /\ Submitted \o Pending = Tracked
        /\ pc = "generated" => Pending = <<>>

\* C27, a state where it binds: generate has returned although the gateway call
\* for the first 25 commits failed, and the commit without a title was skipped
C27_Reached ==
    /\ pc = "generated"
    /\ api_key
    /\ Len(scen.commits) = 30
    /\ Len(posts) = 2
    /\ posts[1].response = NoResponse
    /\ Len(Submitted) = 29

\* whether a line is a level-3 heading that names category c
Level3Heading(line, c) ==
    LET s == Strip(line)
    IN  /\ Len(s) >= 4
        /\ SubSeq(s, 1, 3) = <<"#","#","#">>
        /\ s[4] # "#"
        /\ Lower(Strip(SubSeq(s, 4, Len(s)))) = Lower(Title(c))

\* how many of the lines are bullet lines
RECURSIVE BulletCount(_)
BulletCount(lines) ==
    IF lines = <<>> THEN 0
    ELSE (IF MatchBullet(Head(lines)) THEN 1 ELSE 0) + BulletCount(Tail(lines))

\* how many lines the sections of a release hold together
StoredCount(rel) ==
    Len(Concat([i \in 1..Len(CategoryOrder) |-> rel.sections[CategoryOrder[i]]]))

\* C28: after read a section holds lines only if a level-3 heading of its category
\* stands above a bullet line, and each bullet line is in at most one section, so
\* the sections together hold no more lines than there are bullet lines.
C28_OnlyLevel3HeadingsOpenSections ==
    calls = 1 =>
        /\ \A c \in Categories :
               output[1].sections[c] # <<>> =>
                   \E i, j \in 1..Len(input) :
                       i < j /\ Level3Heading(input[i], c) /\ MatchBullet(input[j])
        /\ StoredCount(output[1]) <= BulletCount(input)

\* C28, a state where it binds: a bullet under "### Added" was read into Added and
\* a bullet under a heading that names no category into no section
C28_Reached ==
    /\ calls = 1
    /\ input = <<<<"#","#","#"," ","A","d","d","e","d","\n">>, <<"*"," ","a","n"," ","u","p","d","a","t","e","\n">>, <<"#","#","#"," ","S","o","m","e"," ","o","t","h","e","r"," ","s","e","c","t","i","o","n","\n">>,
                 <<" "," ","-"," ","a"," ","s","u","b"," ","u","p","d","a","t","e">>>>
    /\ output[1].sections["Added"] = <<<<"*"," ","a","n"," ","u","p","d","a","t","e">>>>
    /\ StoredCount(output[1]) = 1

\* the lines of the text generate's releases render to
OutLines == Split(Doc_str(releases, tags), "\n")

\* whether line h of the output is the heading of version v
HeadsVersion(h, v) ==
    \/ OutLines[h] = <<"#","#"," ">> \o v
    \/ StartsWith(OutLines[h], <<"#","#"," ">> \o v \o <<" ","-"," ">>)

\* whether the output holds the line below heading h, before the next release
InBlock(h, line) ==
    \E j \in (h + 1)..Len(OutLines) :
        /\ OutLines[j] = line
        /\ \A m \in (h + 1)..j : ~StartsWith(OutLines[m], <<"#","#"," ">>)

\* whether the output holds version v with every bullet the file had for it
Kept(v) ==
    \E h \in 1..Len(OutLines) :
        /\ HeadsVersion(h, v)
        /\ \A c \in Categories :
               \A k \in 1..Len(FileReleases[v].sections[c]) :
                   InBlock(h, FileReleases[v].sections[c][k])

\* C29: when generate has completed over an existing file, the text it renders
\* holds every release read made for a version heading of the file, tagged or
\* not, with the bullets the file had for it.
C29_NoReleaseLost ==
    (has_git /\ pc = "generated" /\ file.exists) =>
        \A v \in DOMAIN FileReleases : Lower(v) # <<"u","n","r","e","l","e","a","s","e","d">> => Kept(v)

\* C29, a state where it binds: generate has completed over a file that holds the
\* release of the tag, and the text rendered holds it with its bullets
C29_Reached ==
    /\ has_git
    /\ pc = "generated"
    /\ file = EditedFile
    /\ scen = RepoSingle
    /\ <<"1",".","0",".","0">> \in DOMAIN FileReleases
    /\ Kept(<<"1",".","0",".","0">>)

\* whether this run has generated and saved, without a key, over the file the
\* previous run generated and saved, with the history and the tags as they were
SecondRunUnchanged ==
    /\ pc = "saved"
    /\ has_git
    /\ ~api_key
    /\ prev.saved
    /\ Unreleased \in DOMAIN prev.releases
    /\ Unreleased \in DOMAIN releases
    /\ prev.tags = tags
    /\ prev.now = now

\* C30: a run that generates and saves, without a key, over the file the previous
\* run generated and saved, with history and tags unchanged, leaves the file with
\* the content the previous run wrote.
C30_SecondRunWritesSameFile ==
    SecondRunUnchanged => file.content = Doc_str(prev.releases, prev.tags)

\* C30, a state where it binds: the second run over an unchanged repository with
\* a tag and commits after it has saved the text the first run wrote
C30_Reached ==
    /\ SecondRunUnchanged
    /\ scen = RepoSingle
    /\ now = 3
    /\ fileReads = 1
    /\ file.content = Doc_str(prev.releases, prev.tags)

====
